---- MODULE Spec2Model ----
(***************************************************************************)
(* A model of the chainhooks Go client: the fluent ChainhookBuilder, the   *)
(* ChainhookOptionsBuilder, the error taxonomy with its classification     *)
(* helpers, the Client's request round trip with the public operations     *)
(* built on it, and goroutines that share one Client.                      *)
(*                                                                         *)
(* Go values are modelled as follows.  A pointer is a sequence: <<>> is    *)
(* nil and <<v>> points at v.  A struct is a record with the struct's      *)
(* field names.  A string is a TLA+ string, "" being the empty string.     *)
(* An error is nil (<<>>) or <<e>> with e a record whose kind names the    *)
(* dynamic type of the error value.                                        *)
(***************************************************************************)
EXTENDS Integers, Sequences, FiniteSets, TLC

VARIABLES
    b,        \* the ChainhookBuilder: definition, filters, err
    heap,     \* the ChainhookOptions objects b.definition.Options may point at
    ret,      \* what the last builder call returned
    optionCalls, \* number of option setter calls made so far
    held,     \* the definition pointer a caller kept from a successful Build
    c,        \* the Client
    out,      \* the public Client call in progress: what it did and returned
    err,      \* an error value handed to the classification helpers
    class,    \* what the classification helpers answered for err
    g,        \* the goroutines that share the Client: the call each is in
    fatal,    \* the Go runtime has thrown a fatal error and ended the program
    ob,       \* the ChainhookOptionsBuilder: the object its opts points at
    calls,    \* per option field, the argument of the last setter call
    built     \* what ChainhookOptionsBuilder.Build returned

bvars == <<b, heap, ret, optionCalls, held>>
cvars == <<c, out>>
evars == <<err, class>>
gvars == <<g, fatal>>
ovars == <<ob, calls, built>>

NIL == <<>>
Ptr(v) == <<v>>
Deref(p) == p[1]

---------------------------------------------------------------------------
(* Bounds of the model *)

\* how far one builder grows: the filters it accumulates plus the option
\* setter calls made on it
MaxAdds == 1

\* how many filters a builder accumulates where the order of filters is looked at
MaxFilters == 2

\* the number of option setter calls made in a row on one builder
MaxOptionCalls == 3

---------------------------------------------------------------------------
(* Constants of the program *)

DefaultAPIVersion == "1"
ChainStacks == "stacks"
DefaultChain == ChainStacks
NetworkMainnet == "mainnet"
NetworkTestnet == "testnet"

EventTypeFTMint == "ft_mint"
EventTypeFTBurn == "ft_burn"
EventTypeFTTransfer == "ft_transfer"
EventTypeNFTMint == "nft_mint"
EventTypeNFTBurn == "nft_burn"
EventTypeNFTTransfer == "nft_transfer"
EventTypeSTXMint == "stx_mint"
EventTypeSTXBurn == "stx_burn"
EventTypeSTXTransfer == "stx_transfer"
EventTypeContractDeploy == "contract_deploy"
EventTypeContractCall == "contract_call"
EventTypeContractLog == "contract_log"
EventTypeBalanceChange == "balance_change"
EventTypeCoinbase == "coinbase"
EventTypeTenureChange == "tenure_change"

---------------------------------------------------------------------------
(* Inputs the callers draw from *)

Names == {"", "hook"}
Networks == {NetworkMainnet, NetworkTestnet}
WebhookURLs == {"", "https://example.com/webhook"}
Assets == {"token"}

StringPtr(s) == Ptr(s)
BoolPtr(v) == Ptr(v)
Uint64Ptr(u) == Ptr(u)

PrincipalStandard(address) == Ptr([Standard |-> StringPtr(address), Contract |-> NIL])
PrincipalContract(address) == Ptr([Standard |-> NIL, Contract |-> StringPtr(address)])


---------------------------------------------------------------------------
(* Errors *)

ValidationError(field, reason) ==
    [kind |-> "ValidationError", Field |-> field, Reason |-> reason]

\* an error value stored in the builder's err slot by code of the package
RecordedError == [kind |-> "errorString", msg |-> "recorded"]

---------------------------------------------------------------------------
(* ChainhookOptions: every field is a pointer, nil until it is set *)

BoolOptionFields ==
    {"EnableOnRegistration", "DecodeClarityValues", "IncludeContractABI",
     "IncludeContractSourceCode", "IncludePostConditions",
     "IncludeRawTransactions", "IncludeBlockSignatures", "IncludeBlockMetadata"}
CountOptionFields == {"ExpireAfterEvaluations", "ExpireAfterOccurrences"}
OptionFields == BoolOptionFields \cup CountOptionFields

\* &ChainhookOptions{}
NewChainhookOptions == [f \in OptionFields |-> NIL]

Counts == {0, 1}

\* the two ChainhookOptions objects of the model: "own" is the one a
\* ChainhookBuilder allocates, "caller" the one the caller holds (the object
\* of a ChainhookOptionsBuilder, handed over with WithOptions)
OptionObjects == {"own", "caller"}

---------------------------------------------------------------------------
(* ChainhookBuilder *)

\* the address of the ChainhookDefinition that NewChainhookBuilder allocates;
\* the builder's definition field points to it from then on, and the
\* definition component of a builder record is the value at that address
OwnDefinition == "b.definition"

NewChainhookBuilder(name, network) ==
    [definition |->
        [Name |-> name,
         Version |-> DefaultAPIVersion,
         Chain |-> DefaultChain,
         Network |-> network,
         Filters |-> [Events |-> <<>>],
         Options |-> NIL,
         Action |-> [Type |-> "", URL |-> ""]],
     filters |-> <<>>,
     err |-> NIL]

WithName(bb, name) ==
    IF bb.err # NIL THEN bb
    ELSE [bb EXCEPT !.definition.Name = name]

WithNetwork(bb, network) ==
    IF bb.err # NIL THEN bb
    ELSE [bb EXCEPT !.definition.Network = network]

WithWebhookURLRecordingErr(bb, url) ==
    IF bb.err # NIL THEN bb
    ELSE IF url = ""
    THEN [bb EXCEPT !.err = Ptr(ValidationError("action.url", "webhook URL is required"))]
    ELSE [bb EXCEPT !.definition.Action = [Type |-> "http_post", URL |-> url]]

WithWebhookURL(bb, url) ==
    IF bb.err # NIL THEN bb
    ELSE [bb EXCEPT !.definition.Action = [Type |-> "http_post", URL |-> url]]

AddFilterIgnoringErr(bb, filter) ==
    [bb EXCEPT !.filters = Append(bb.filters, filter)]

AddFilter(bb, filter) ==
    IF bb.err # NIL THEN bb
    ELSE [bb EXCEPT !.filters = Append(bb.filters, filter)]

AddFTTransfer(bb, asset, sender, receiver, amount) ==
    AddFilter(bb, Ptr([struct |-> "FTTransferFilter", Type |-> EventTypeFTTransfer,
                       Asset |-> asset, Sender |-> sender, Recipient |-> receiver,
                       Amount |-> amount]))

AddFTMint(bb, asset, recipient, amount) ==
    AddFilter(bb, Ptr([struct |-> "FTMintFilter", Type |-> EventTypeFTMint,
                       Asset |-> asset, Recipient |-> recipient, Amount |-> amount]))

AddFTBurn(bb, asset, sender, amount) ==
    AddFilter(bb, Ptr([struct |-> "FTBurnFilter", Type |-> EventTypeFTBurn,
                       Asset |-> asset, Sender |-> sender, Amount |-> amount]))

AddNFTTransfer(bb, asset, sender, receiver) ==
    AddFilter(bb, Ptr([struct |-> "NFTTransferFilter", Type |-> EventTypeNFTTransfer,
                       Asset |-> asset, Sender |-> sender, Recipient |-> receiver]))

AddNFTMint(bb, asset, recipient) ==
    AddFilter(bb, Ptr([struct |-> "NFTMintFilter", Type |-> EventTypeNFTMint,
                       Asset |-> asset, Recipient |-> recipient]))

AddNFTBurn(bb, asset, sender) ==
    AddFilter(bb, Ptr([struct |-> "NFTBurnFilter", Type |-> EventTypeNFTBurn,
                       Asset |-> asset, Sender |-> sender]))

AddSTXTransferTaggedMint(bb, sender, receiver, amount) ==
    AddFilter(bb, Ptr([struct |-> "STXTransferFilter", Type |-> EventTypeSTXMint,
                       Sender |-> sender, Recipient |-> receiver, Amount |-> amount]))

AddSTXTransfer(bb, sender, receiver, amount) ==
    AddFilter(bb, Ptr([struct |-> "STXTransferFilter", Type |-> EventTypeSTXTransfer,
                       Sender |-> sender, Recipient |-> receiver, Amount |-> amount]))

AddSTXMint(bb, recipient, amount) ==
    AddFilter(bb, Ptr([struct |-> "STXMintFilter", Type |-> EventTypeSTXMint,
                       Recipient |-> recipient, Amount |-> amount]))

AddSTXBurn(bb, sender, amount) ==
    AddFilter(bb, Ptr([struct |-> "STXBurnFilter", Type |-> EventTypeSTXBurn,
                       Sender |-> sender, Amount |-> amount]))

AddContractDeploy(bb, deployerPrincipal) ==
    AddFilter(bb, Ptr([struct |-> "ContractDeployFilter", Type |-> EventTypeContractDeploy,
                       DeployerPrincipal |-> deployerPrincipal]))

AddContractCall(bb, contractID, method, sender) ==
    AddFilter(bb, Ptr([struct |-> "ContractCallFilter", Type |-> EventTypeContractCall,
                       ContractIdentifier |-> contractID, Method |-> method,
                       Sender |-> sender]))

AddContractLog(bb, contractID) ==
    AddFilter(bb, Ptr([struct |-> "ContractLogFilter", Type |-> EventTypeContractLog,
                       ContractIdentifier |-> contractID]))

AddBalanceChange(bb, principal) ==
    AddFilter(bb, Ptr([struct |-> "BalanceChangeFilter", Type |-> EventTypeBalanceChange,
                       Principal |-> principal]))

AddCoinbase(bb, recipient) ==
    AddFilter(bb, Ptr([struct |-> "CoinbaseFilter", Type |-> EventTypeCoinbase,
                       Recipient |-> recipient]))

AddTenureChange(bb) ==
    AddFilter(bb, Ptr([struct |-> "TenureChangeFilter", Type |-> EventTypeTenureChange]))

\* The option methods read and write the builder and the options objects:
\* they take and return the pair st = [b |-> builder, heap |-> objects].

WithOptionsCopying(st, opts) ==
    IF st.b.err # NIL THEN st
    ELSE IF opts = NIL
    THEN [st EXCEPT !.b.definition.Options = NIL,
                    !.heap["own"] = NewChainhookOptions]
    ELSE [st EXCEPT !.b.definition.Options = Ptr("own"),
                    !.heap["own"] = st.heap[Deref(opts)]]

\* (the object the builder allocated is referenced by b.definition.Options
\* alone: once that pointer is replaced the object is garbage, and the model
\* drops its contents)
WithOptions(st, opts) ==
    IF st.b.err # NIL THEN st
    ELSE [st EXCEPT !.b.definition.Options = opts,
                    !.heap["own"] = NewChainhookOptions]

\* the body shared by the ten option setters of ChainhookBuilder: allocate
\* the options on first use, then assign the one field
withOptionAllocatingAnew(st, field, value) ==
    IF st.b.err # NIL THEN st
    ELSE LET alloc == st.b.definition.Options = NIL
             obj == IF alloc THEN "own" ELSE Deref(st.b.definition.Options)
         IN [b |-> [st.b EXCEPT !.definition.Options = Ptr(obj)],
             heap |-> [st.heap EXCEPT ![obj] = [NewChainhookOptions EXCEPT ![field] = value]]]

withOption(st, field, value) ==
    IF st.b.err # NIL THEN st
    ELSE LET alloc == st.b.definition.Options = NIL
             obj == IF alloc THEN "own" ELSE Deref(st.b.definition.Options)
             base == IF alloc THEN NewChainhookOptions ELSE st.heap[obj]
         IN [b |-> [st.b EXCEPT !.definition.Options = Ptr(obj)],
             heap |-> [st.heap EXCEPT ![obj] = [base EXCEPT ![field] = value]]]

WithEnableOnRegistration(st, enable) ==
    withOption(st, "EnableOnRegistration", BoolPtr(enable))
WithExpireAfterEvaluations(st, count) ==
    withOption(st, "ExpireAfterEvaluations", Uint64Ptr(count))
WithExpireAfterOccurrences(st, count) ==
    withOption(st, "ExpireAfterOccurrences", Uint64Ptr(count))
WithDecodeClarityValues(st, decode) ==
    withOption(st, "DecodeClarityValues", BoolPtr(decode))
WithIncludeContractABI(st, include) ==
    withOption(st, "IncludeContractABI", BoolPtr(include))
WithIncludeContractSourceCode(st, include) ==
    withOption(st, "IncludeContractSourceCode", BoolPtr(include))
WithIncludePostConditions(st, include) ==
    withOption(st, "IncludePostConditions", BoolPtr(include))
WithIncludeRawTransactions(st, include) ==
    withOption(st, "IncludeRawTransactions", BoolPtr(include))
WithIncludeBlockSignatures(st, include) ==
    withOption(st, "IncludeBlockSignatures", BoolPtr(include))
WithIncludeBlockMetadata(st, include) ==
    withOption(st, "IncludeBlockMetadata", BoolPtr(include))

\* Build: the builder afterwards, and the (definition, error) pair returned.
\* The definition returned is the builder's own: ref is the pointer returned
\* and def the value it points to on return.
BuildChecksReversed(bb) ==
    IF bb.err # NIL THEN [b |-> bb, def |-> NIL, err |-> bb.err]
    ELSE IF Len(bb.filters) = 0
    THEN [b |-> bb, def |-> NIL,
          err |-> Ptr(ValidationError("filters", "at least one filter is required"))]
    ELSE IF bb.definition.Action.URL = ""
    THEN [b |-> bb, def |-> NIL,
          err |-> Ptr(ValidationError("action.url", "webhook URL is required"))]
    ELSE IF bb.definition.Name = ""
    THEN [b |-> bb, def |-> NIL,
          err |-> Ptr(ValidationError("name", "name is required"))]
    ELSE LET nb == [bb EXCEPT !.definition.Filters = [Events |-> bb.filters]]
         IN [b |-> nb, def |-> Ptr(nb.definition), err |-> NIL]

BuildWithoutFilters(bb) ==
    IF bb.err # NIL THEN [b |-> bb, def |-> NIL, err |-> bb.err]
    ELSE IF bb.definition.Name = ""
    THEN [b |-> bb, def |-> NIL,
          err |-> Ptr(ValidationError("name", "name is required"))]
    ELSE IF bb.definition.Action.URL = ""
    THEN [b |-> bb, def |-> NIL,
          err |-> Ptr(ValidationError("action.url", "webhook URL is required"))]
    ELSE [b |-> bb, def |-> Ptr(bb.definition), err |-> NIL]

BuildRecordingFailure(bb) ==
    LET failed(field, reason) ==
            [b |-> [bb EXCEPT !.err = Ptr(ValidationError(field, reason))],
             def |-> NIL, err |-> Ptr(ValidationError(field, reason))]
    IN IF bb.err # NIL THEN [b |-> bb, def |-> NIL, err |-> bb.err]
       ELSE IF bb.definition.Name = "" THEN failed("name", "name is required")
       ELSE IF bb.definition.Action.URL = ""
       THEN failed("action.url", "webhook URL is required")
       ELSE IF Len(bb.filters) = 0
       THEN failed("filters", "at least one filter is required")
       ELSE LET nb == [bb EXCEPT !.definition.Filters = [Events |-> bb.filters]]
            IN [b |-> nb, def |-> Ptr(nb.definition), err |-> NIL]

BuildReturningCopy(bb) ==
    IF bb.err # NIL THEN [b |-> bb, def |-> NIL, ref |-> NIL, err |-> bb.err]
    ELSE IF bb.definition.Name = ""
    THEN [b |-> bb, def |-> NIL, ref |-> NIL,
          err |-> Ptr(ValidationError("name", "name is required"))]
    ELSE IF bb.definition.Action.URL = ""
    THEN [b |-> bb, def |-> NIL, ref |-> NIL,
          err |-> Ptr(ValidationError("action.url", "webhook URL is required"))]
    ELSE IF Len(bb.filters) = 0
    THEN [b |-> bb, def |-> NIL, ref |-> NIL,
          err |-> Ptr(ValidationError("filters", "at least one filter is required"))]
    ELSE LET nb == [bb EXCEPT !.definition.Filters = [Events |-> bb.filters]]
         IN [b |-> nb, def |-> Ptr(nb.definition), ref |-> Ptr("copy"), err |-> NIL]

Build(bb) ==
    IF bb.err # NIL THEN [b |-> bb, def |-> NIL, ref |-> NIL, err |-> bb.err]
    ELSE IF bb.definition.Name = ""
    THEN [b |-> bb, def |-> NIL, ref |-> NIL,
          err |-> Ptr(ValidationError("name", "name is required"))]
    ELSE IF bb.definition.Action.URL = ""
    THEN [b |-> bb, def |-> NIL, ref |-> NIL,
          err |-> Ptr(ValidationError("action.url", "webhook URL is required"))]
    ELSE IF Len(bb.filters) = 0
    THEN [b |-> bb, def |-> NIL, ref |-> NIL,
          err |-> Ptr(ValidationError("filters", "at least one filter is required"))]
    ELSE LET nb == [bb EXCEPT !.definition.Filters = [Events |-> bb.filters]]
         IN [b |-> nb, def |-> Ptr(nb.definition), ref |-> Ptr(OwnDefinition), err |-> NIL]

---------------------------------------------------------------------------
(* Errors of the client: *HttpError, and the errors fmt.Errorf wraps *)

HttpError(statusCode, url, method, headers, body, rawBody) ==
    [kind |-> "HttpError", StatusCode |-> statusCode, URL |-> url, Method |-> method,
     Headers |-> headers, Body |-> body, RawBody |-> rawBody, Err |-> NIL]

\* fmt.Errorf("<msg>: %w", cause): a *fmt.wrapError around the cause
Errorf(msg, cause) == [kind |-> "wrapError", msg |-> msg, Err |-> Ptr(cause)]

\* an error of the standard library, named by its text
LibraryError(text) == [kind |-> "errorString", msg |-> text]

\* err.(*HttpError)
AsHttpError(e) ==
    IF e # NIL /\ Deref(e).kind = "HttpError"
    THEN [httpErr |-> e, ok |-> TRUE]
    ELSE [httpErr |-> NIL, ok |-> FALSE]

IsHttpError(e) == AsHttpError(e).ok

GetHttpStatusCode(e) ==
    LET r == AsHttpError(e)
    IN IF ~r.ok THEN [statusCode |-> 0, ok |-> FALSE]
       ELSE [statusCode |-> Deref(r.httpErr).StatusCode, ok |-> TRUE]

IsNotFound(e) ==
    LET r == GetHttpStatusCode(e) IN r.ok /\ r.statusCode = 404

IsUnauthorized(e) ==
    LET r == GetHttpStatusCode(e) IN r.ok /\ r.statusCode = 401

IsForbidden(e) ==
    LET r == GetHttpStatusCode(e) IN r.ok /\ r.statusCode = 403

IsServerErrorBelow600(e) ==
    LET r == GetHttpStatusCode(e) IN r.ok /\ r.statusCode >= 500 /\ r.statusCode < 600

IsServerError(e) ==
    LET r == GetHttpStatusCode(e) IN r.ok /\ r.statusCode >= 500

IsClientError(e) ==
    LET r == GetHttpStatusCode(e) IN r.ok /\ r.statusCode >= 400 /\ r.statusCode < 500

---------------------------------------------------------------------------
(* JSON texts.  A text is modelled with what encoding/json makes of it:     *)
(* json.kind is "invalid" for a text that is no JSON, else the kind of the  *)
(* top-level value; an object lists its members, each with the JSON type    *)
(* (t) and the value (v, written as text) of the member.                    *)

JSONString(v) == [t |-> "string", v |-> v]
JSONNumber(v) == [t |-> "number", v |-> v]

EmptyBody == [text |-> "", json |-> [kind |-> "invalid"]]

BodyMessage ==
    [text |-> "{\"message\":\"not found\"}",
     json |-> [kind |-> "object",
               members |-> [message |-> JSONString("not found")]]]

BodyBoth ==
    [text |-> "{\"message\":\"bad request\",\"error\":\"invalid\"}",
     json |-> [kind |-> "object",
               members |-> [message |-> JSONString("bad request"),
                            error |-> JSONString("invalid")]]]

BodyErrorOnly ==
    [text |-> "{\"message\":404,\"error\":\"missing\",\"uuid\":7}",
     json |-> [kind |-> "object",
               members |-> [message |-> JSONNumber("404"),
                            error |-> JSONString("missing"),
                            uuid |-> JSONNumber("7")]]]

BodyResult ==
    [text |-> "{\"uuid\":\"u1\",\"total\":1,\"updated_count\":1,\"secret\":\"s1\",\"version\":\"v1\"}",
     json |-> [kind |-> "object",
               members |-> [uuid |-> JSONString("u1"),
                            total |-> JSONNumber("1"),
                            updated_count |-> JSONNumber("1"),
                            secret |-> JSONString("s1"),
                            version |-> JSONString("v1")]]]

BodyNull == [text |-> "null", json |-> [kind |-> "null"]]

BodyText == [text |-> "upstream timed out", json |-> [kind |-> "invalid"]]

Bodies == {EmptyBody, BodyMessage, BodyBoth, BodyErrorOnly, BodyResult, BodyNull, BodyText}

\* json.Unmarshal(body, &errResp) with errResp a map[string]interface{}:
\* fails unless the text is a JSON object or null; null leaves the map nil,
\* and a nil map has no keys
UnmarshalMap(body) ==
    IF body.json.kind = "object" THEN [ok |-> TRUE, m |-> body.json.members]
    ELSE IF body.json.kind = "null" THEN [ok |-> TRUE, m |-> <<>>]
    ELSE [ok |-> FALSE, m |-> <<>>]

\* m[key].(string)
StringAt(m, key) ==
    IF key \in DOMAIN m /\ m[key].t = "string"
    THEN [s |-> m[key].v, ok |-> TRUE]
    ELSE [s |-> "", ok |-> FALSE]

\* The result types of the operations, with the top-level scalar members
\* json.Unmarshal fills and the JSON type each wants
ResultMembers ==
    [Chainhook |-> [uuid |-> "string"],
     PaginatedChainhookResponse |-> [total |-> "number"],
     BulkEnableChainhooksResponse |-> [updated_count |-> "number"],
     ConsumerSecretResponse |-> [secret |-> "string"],
     ApiStatusResponse |-> [status |-> "string", version |-> "string"]]

\* var result T: the zero value ("" stands for the zero of either type)
ZeroResult(T) == [type |-> T, members |-> [k \in DOMAIN ResultMembers[T] |-> ""]]

\* json.Unmarshal(body, result) with result a pointer to one of the result
\* types: a text that is no JSON changes nothing; null changes nothing and
\* succeeds; an object fills the members it names with the right type, and
\* a member of the wrong type is skipped and reported; any other value is
\* reported
Unmarshal(body, value) ==
    LET want == ResultMembers[value.type]
        j == body.json
    IN IF j.kind = "null" THEN [ok |-> TRUE, value |-> value]
       ELSE IF j.kind # "object" THEN [ok |-> FALSE, value |-> value]
       ELSE LET named == DOMAIN want \cap DOMAIN j.members
                good == {k \in named : j.members[k].t = want[k]}
            IN [ok |-> good = named,
                value |-> [value EXCEPT !.members =
                              [k \in DOMAIN want |->
                                  IF k \in good THEN j.members[k].v
                                  ELSE value.members[k]]]]

---------------------------------------------------------------------------
(* Constants of the client *)

ChainhooksBaseURLs ==
    [mainnet |-> "https://api.mainnet.hiro.so",
     testnet |-> "https://api.testnet.hiro.so"]

MethodGET == "GET"
MethodPOST == "POST"
MethodPATCH == "PATCH"
MethodDELETE == "DELETE"

\* the endpoints; one with a %s is an operator of the uuid it is formatted with
EndpointChainhooks == "/chainhooks/me"
EndpointChainhook(uuid) == "/chainhooks/me/" \o uuid
EndpointChainhookEnabled(uuid) == "/chainhooks/me/" \o uuid \o "/enabled"
EndpointBulkEnabled == "/chainhooks/me/enabled"
EndpointEvaluate(uuid) == "/chainhooks/me/" \o uuid \o "/evaluate"
EndpointConsumerSecret == "/chainhooks/me/secret"
EndpointStatus == "/chainhooks"

HeaderAccept == "Accept"
HeaderContentType == "Content-Type"
HeaderAuthorization == "Authorization"
HeaderAPIKey == "x-api-key"

ContentTypeJSON == "application/json"

\* the Timeout, in seconds, of the http.Client the constructor makes
DefaultHTTPTimeout == 30
DefaultUserAgent == "chainhooks-client-go/1.0.0"

StatusNoContent == 204

---------------------------------------------------------------------------
(* Strings *)

Char(s, i) == SubSeq(s, i, i)

HasSuffix(s, suffix) ==
    /\ Len(s) >= Len(suffix)
    /\ SubSeq(s, Len(s) - Len(suffix) + 1, Len(s)) = suffix

\* strings.TrimSuffix: s without the suffix if it ends with it, else s
TrimSuffix(s, suffix) ==
    IF HasSuffix(s, suffix) THEN SubSeq(s, 1, Len(s) - Len(suffix)) ELSE s

LowerLetters == "abcdefghijklmnopqrstuvwxyz"
UpperLetters == "ABCDEFGHIJKLMNOPQRSTUVWXYZ"

IndexIn(s, ch) ==
    IF \E i \in 1..Len(s) : Char(s, i) = ch
    THEN CHOOSE i \in 1..Len(s) : Char(s, i) = ch
    ELSE 0

\* the upper case letter of each lower case letter, and the reverse
UpperOf ==
    [ch \in {Char(LowerLetters, i) : i \in 1..Len(LowerLetters)} |->
        Char(UpperLetters, IndexIn(LowerLetters, ch))]

LowerOf ==
    [ch \in {Char(UpperLetters, i) : i \in 1..Len(UpperLetters)} |->
        Char(LowerLetters, IndexIn(UpperLetters, ch))]

ToUpper(ch) == IF ch \in DOMAIN UpperOf THEN UpperOf[ch] ELSE ch

ToLower(ch) == IF ch \in DOMAIN LowerOf THEN LowerOf[ch] ELSE ch

RECURSIVE canonicalFrom(_, _, _)
canonicalFrom(s, i, upper) ==
    IF i > Len(s) THEN ""
    ELSE LET ch == Char(s, i)
         IN (IF upper THEN ToUpper(ch) ELSE ToLower(ch))
                \o canonicalFrom(s, i + 1, ch = "-")

\* textproto.CanonicalMIMEHeaderKey, which http.Header.Set applies to the
\* key: a key with a space is left as it is; otherwise the first letter and
\* every letter after a hyphen is upper case and the other letters lower case
CanonicalHeaderKey(key) ==
    IF IndexIn(key, " ") > 0 THEN key ELSE canonicalFrom(key, 1, TRUE)

\* the decimal text of a small number (fmt.Sprintf("%d", n))
Decimal(n) == ToString(n)

---------------------------------------------------------------------------
(* Client *)

\* &ClientConfig{...}; Timeout counts seconds, HTTPClient is nil or points
\* at the caller's http.Client
ClientConfig(baseURL, apiKey, jwt, httpClient, timeout, userAgent) ==
    [BaseURL |-> baseURL, APIKey |-> apiKey, JWT |-> jwt,
     HTTPClient |-> httpClient, Timeout |-> timeout, UserAgent |-> userAgent]

NewClientWithConfig(config) ==
    LET cfg0 == IF config = NIL THEN ClientConfig("", NIL, NIL, NIL, 0, "")
                ELSE Deref(config)
        baseURL == IF cfg0.BaseURL = "" THEN ChainhooksBaseURLs[NetworkMainnet]
                   ELSE cfg0.BaseURL
        httpClient0 == IF cfg0.HTTPClient = NIL THEN [Timeout |-> DefaultHTTPTimeout]
                       ELSE Deref(cfg0.HTTPClient)
        httpClient == IF cfg0.Timeout > 0
                      THEN [httpClient0 EXCEPT !.Timeout = cfg0.Timeout]
                      ELSE httpClient0
        userAgent == IF cfg0.UserAgent = "" THEN DefaultUserAgent ELSE cfg0.UserAgent
    IN [baseURL |-> TrimSuffix(baseURL, "/"),
        apiKey |-> cfg0.APIKey,
        jwt |-> cfg0.JWT,
        httpClient |-> httpClient,
        userAgent |-> userAgent,
        timeout |-> cfg0.Timeout,
        headers |-> (HeaderAccept :> ContentTypeJSON)
                        @@ (HeaderContentType :> ContentTypeJSON)]

NewClient(baseURL) ==
    NewClientWithConfig(Ptr(ClientConfig(baseURL, NIL, NIL, NIL, 0, "")))

SetAPIKey(cl, apiKey) == [cl EXCEPT !.apiKey = Ptr(apiKey)]

SetJWT(cl, jwt) == [cl EXCEPT !.jwt = Ptr(jwt)]

\* c.headers[key] = value
SetHeader(cl, key, value) ==
    [cl EXCEPT !.headers = (key :> value) @@ cl.headers]

---------------------------------------------------------------------------
(* Request bodies and json.Marshal *)

\* A body is an interface value: its dynamic type and the value.
Body(type, v) == Ptr([type |-> type, v |-> v])

\* an element of Filters.Events that encoding/json cannot encode (Events is
\* a []interface{}, so a hand-made definition may hold a channel there)
Unencodable == Ptr([struct |-> "chan"])

\* json.Marshal(body): the bytes are modelled by the JSON object they spell,
\* a function from member name to value.  Members tagged omitempty are left
\* out when empty; the events of a definition are kept as filter values.
Marshal(body) ==
    LET v == body.v
    IN CASE body.type = "ChainhookDefinition" ->
              IF \E i \in 1..Len(v.Filters.Events) : v.Filters.Events[i] = Unencodable
              THEN [ok |-> FALSE, bytes |-> NIL,
                    err |-> Ptr(LibraryError("json: unsupported type: chan int"))]
              ELSE [ok |-> TRUE, err |-> NIL,
                    bytes |-> Ptr([name |-> v.Name, version |-> v.Version,
                                   chain |-> v.Chain, network |-> v.Network,
                                   filters |-> [events |-> v.Filters.Events],
                                   action |-> [type |-> v.Action.Type, url |-> v.Action.URL]]
                                  @@ (IF v.Options = NIL THEN <<>>
                                      ELSE [options |-> v.Options]))]
         [] body.type = "map[string]bool" ->
              [ok |-> TRUE, err |-> NIL, bytes |-> Ptr(v)]
         [] body.type = "BulkEnableChainhooksRequest" ->
              [ok |-> TRUE, err |-> NIL,
               bytes |-> Ptr([enabled |-> v.Enabled]
                             @@ (IF Len(v.UUIDs) = 0 THEN <<>> ELSE [uuids |-> v.UUIDs])
                             @@ (IF v.WebhookURL = NIL THEN <<>>
                                 ELSE [webhook_url |-> Deref(v.WebhookURL)])
                             @@ (IF Len(v.Statuses) = 0 THEN <<>>
                                 ELSE [statuses |-> v.Statuses]))]
         [] body.type = "EvaluateChainhookRequest" ->
              [ok |-> TRUE, err |-> NIL, bytes |-> Ptr([block_height |-> v.BlockHeight])]

---------------------------------------------------------------------------
(* The transport: http.NewRequestWithContext and httpClient.Do *)

\* url.Parse rejects a URL whose host holds a space; in the URLs of the
\* model a space occurs in the host only
ParseURLFails(rawURL) == IndexIn(rawURL, " ") > 0

\* http.Header.Set
HeaderSet(header, key, value) == (CanonicalHeaderKey(key) :> value) @@ header

\* What "for key, value := range c.headers { req.Header.Set(key, value) }"
\* can leave in the request header.  The iteration order of a Go map is not
\* fixed, so of the keys with one canonical form any may be set last.
RangedHeaders(headers) ==
    LET keys == {CanonicalHeaderKey(k) : k \in DOMAIN headers}
        picks == {p \in [keys -> DOMAIN headers] :
                      \A K \in keys : CanonicalHeaderKey(p[K]) = K}
    IN {[K \in keys |-> headers[p[K]]] : p \in picks}

Contexts == {"live", "cancelled"}

Statuses == {200, 204, 399, 400, 404, 500, 600}

ResponseHeaders == {<<>>, [Retry_After |-> "1"]}

\* A response as the client sees it: body is what io.ReadAll returns from
\* resp.Body and readErr whether it returns an error with it.  A read that
\* fails returns what it read before: here nothing, or a whole message.
Responses ==
    [StatusCode : Statuses, Header : ResponseHeaders, body : Bodies, readErr : {FALSE}]
    \cup [StatusCode : Statuses, Header : ResponseHeaders,
          body : {EmptyBody, BodyMessage}, readErr : {TRUE}]

\* What httpClient.Do can return for a request made with ctx: an error, or
\* a response.  With a cancelled context it returns the context's error.
Outcomes(ctx) ==
    IF ctx = "cancelled"
    THEN {[resp |-> NIL, err |-> Ptr(LibraryError("context canceled"))]}
    ELSE {[resp |-> NIL, err |-> Ptr(LibraryError("connection refused"))]}
         \cup {[resp |-> Ptr(r), err |-> NIL] : r \in Responses}

\* the network's part in one call: the header the range loop left and the
\* outcome of Do
Nets(cl, ctx) ==
    [header : RangedHeaders(cl.headers), outcome : Outcomes(ctx)]

---------------------------------------------------------------------------
(* newHttpError and Client.request *)

newHttpErrorPrefersErrorKey(resp, req) ==
    LET body == Deref(resp).body
        errResp == UnmarshalMap(body)
        errMsg == IF Len(body.text) = 0 THEN ""
                  ELSE IF ~errResp.ok THEN body.text
                  ELSE IF StringAt(errResp.m, "error").ok
                       THEN StringAt(errResp.m, "error").s
                  ELSE IF StringAt(errResp.m, "message").ok
                       THEN StringAt(errResp.m, "message").s
                  ELSE body.text
    IN HttpError(Deref(resp).StatusCode, req.URL, req.Method,
                 Deref(resp).Header, errMsg, body.text)

newHttpError(resp, req) ==
    LET body == Deref(resp).body
        errResp == UnmarshalMap(body)
        errMsg == IF Len(body.text) = 0 THEN ""
                  ELSE IF ~errResp.ok THEN body.text
                  ELSE IF StringAt(errResp.m, "message").ok
                       THEN StringAt(errResp.m, "message").s
                  ELSE IF StringAt(errResp.m, "error").ok
                       THEN StringAt(errResp.m, "error").s
                  ELSE body.text
    IN HttpError(Deref(resp).StatusCode, req.URL, req.Method,
                 Deref(resp).Header, errMsg, body.text)

\* What one call of request did: the error it returned, the destination
\* after it (result, nil if none was passed), the requests handed to
\* httpClient.Do, the response obtained, how often resp.Body was closed
\* and how often json.Unmarshal ran on the destination.
Round(e, result, reqs, resp, closes, decodes) ==
    [err |-> e, result |-> result, reqs |-> reqs, resp |-> resp,
     closes |-> closes, decodes |-> decodes]

\* The part of request after httpClient.Do returned a response.
respondDecodingErrors(resp, req, result) ==
    LET r == Deref(resp)
        u == Unmarshal(r.body, Deref(result))
    IN IF r.StatusCode >= 400
       THEN IF result # NIL /\ Len(r.body.text) > 0
            THEN Round(Ptr(newHttpError(resp, req)), Ptr(u.value), <<req>>, resp, 1, 1)
            ELSE Round(Ptr(newHttpError(resp, req)), result, <<req>>, resp, 1, 0)
       ELSE IF r.StatusCode = StatusNoContent
       THEN Round(NIL, result, <<req>>, resp, 1, 0)
       ELSE IF r.readErr
       THEN Round(Ptr(Errorf("failed to read response body",
                             LibraryError("unexpected EOF"))),
                  result, <<req>>, resp, 1, 0)
       ELSE IF result # NIL /\ Len(r.body.text) > 0
       THEN IF ~u.ok
            THEN Round(Ptr(Errorf("failed to unmarshal response body",
                                  LibraryError("json: cannot unmarshal"))),
                       Ptr(u.value), <<req>>, resp, 1, 1)
            ELSE Round(NIL, Ptr(u.value), <<req>>, resp, 1, 1)
       ELSE Round(NIL, result, <<req>>, resp, 1, 0)

respondDecodingNoContent(resp, req, result) ==
    LET r == Deref(resp)
        u == Unmarshal(r.body, Deref(result))
    IN IF r.StatusCode >= 400
       THEN Round(Ptr(newHttpError(resp, req)), result, <<req>>, resp, 1, 0)
       ELSE IF r.readErr
       THEN Round(Ptr(Errorf("failed to read response body",
                             LibraryError("unexpected EOF"))),
                  result, <<req>>, resp, 1, 0)
       ELSE IF result # NIL /\ Len(r.body.text) > 0
       THEN IF ~u.ok
            THEN Round(Ptr(Errorf("failed to unmarshal response body",
                                  LibraryError("json: cannot unmarshal"))),
                       Ptr(u.value), <<req>>, resp, 1, 1)
            ELSE Round(NIL, Ptr(u.value), <<req>>, resp, 1, 1)
       ELSE Round(NIL, result, <<req>>, resp, 1, 0)

respondDecodeFailureAsHttpError(resp, req, result) ==
    LET r == Deref(resp)
        u == Unmarshal(r.body, Deref(result))
    IN IF r.StatusCode >= 400
       THEN Round(Ptr(newHttpError(resp, req)), result, <<req>>, resp, 1, 0)
       ELSE IF r.StatusCode = StatusNoContent
       THEN Round(NIL, result, <<req>>, resp, 1, 0)
       ELSE IF r.readErr
       THEN Round(Ptr(Errorf("failed to read response body",
                             LibraryError("unexpected EOF"))),
                  result, <<req>>, resp, 1, 0)
       ELSE IF result # NIL /\ Len(r.body.text) > 0
       THEN IF ~u.ok
            THEN Round(Ptr(newHttpError(resp, req)), Ptr(u.value), <<req>>, resp, 1, 1)
            ELSE Round(NIL, Ptr(u.value), <<req>>, resp, 1, 1)
       ELSE Round(NIL, result, <<req>>, resp, 1, 0)

respondClosingTwice(resp, req, result) ==
    LET r == Deref(resp)
        u == Unmarshal(r.body, Deref(result))
    IN IF r.StatusCode >= 400
       THEN Round(Ptr(newHttpError(resp, req)), result, <<req>>, resp, 2, 0)
       ELSE IF r.StatusCode = StatusNoContent
       THEN Round(NIL, result, <<req>>, resp, 2, 0)
       ELSE IF r.readErr
       THEN Round(Ptr(Errorf("failed to read response body",
                             LibraryError("unexpected EOF"))),
                  result, <<req>>, resp, 1, 0)
       ELSE IF result # NIL /\ Len(r.body.text) > 0
       THEN IF ~u.ok
            THEN Round(Ptr(Errorf("failed to unmarshal response body",
                                  LibraryError("json: cannot unmarshal"))),
                       Ptr(u.value), <<req>>, resp, 1, 1)
            ELSE Round(NIL, Ptr(u.value), <<req>>, resp, 1, 1)
       ELSE Round(NIL, result, <<req>>, resp, 1, 0)

respond(resp, req, result) ==
    LET r == Deref(resp)
        u == Unmarshal(r.body, Deref(result))
    IN IF r.StatusCode >= 400
       THEN Round(Ptr(newHttpError(resp, req)), result, <<req>>, resp, 1, 0)
       ELSE IF r.StatusCode = StatusNoContent
       THEN Round(NIL, result, <<req>>, resp, 1, 0)
       ELSE IF r.readErr
       THEN Round(Ptr(Errorf("failed to read response body",
                             LibraryError("unexpected EOF"))),
                  result, <<req>>, resp, 1, 0)
       ELSE IF result # NIL /\ Len(r.body.text) > 0
       THEN IF ~u.ok
            THEN Round(Ptr(Errorf("failed to unmarshal response body",
                                  LibraryError("json: cannot unmarshal"))),
                       Ptr(u.value), <<req>>, resp, 1, 1)
            ELSE Round(NIL, Ptr(u.value), <<req>>, resp, 1, 1)
       ELSE Round(NIL, result, <<req>>, resp, 1, 0)

\* The part of request from httpClient.Do on: one call of Do, whose error
\* is returned wrapped, or whose response is handled.
performDroppingCause(req, outcome, result) ==
    IF outcome.err # NIL
    THEN Round(Ptr([kind |-> "wrapError", msg |-> "failed to perform request",
                    Err |-> NIL]),
               result, <<req>>, NIL, 0, 0)
    ELSE respond(outcome.resp, req, result)

performRetrying(req, outcome, result) ==
    IF outcome.err # NIL
    THEN Round(Ptr(Errorf("failed to perform request", Deref(outcome.err))),
               result, <<req, req>>, NIL, 0, 0)
    ELSE respond(outcome.resp, req, result)

perform(req, outcome, result) ==
    IF outcome.err # NIL
    THEN Round(Ptr(Errorf("failed to perform request", Deref(outcome.err))),
               result, <<req>>, NIL, 0, 0)
    ELSE respond(outcome.resp, req, result)

\* Client.request: the outcome of the round trip together with cl, the
\* client the call leaves behind (the receiver is a pointer; request reads
\* its fields and assigns none of them).
requestKeyUnlessJWT(cl, ctx, method, path, body, result, net) ==
    LET fullURL == cl.baseURL \o path
        m == IF body = NIL THEN [ok |-> TRUE, bytes |-> NIL, err |-> NIL]
             ELSE Marshal(Deref(body))
        h0 == net.header
        h1 == IF cl.jwt # NIL
              THEN HeaderSet(h0, HeaderAuthorization, "Bearer " \o Deref(cl.jwt))
              ELSE h0
        h2 == IF cl.jwt = NIL /\ cl.apiKey # NIL
              THEN HeaderSet(h1, HeaderAPIKey, Deref(cl.apiKey))
              ELSE h1
        req == [Method |-> method, URL |-> fullURL, ctx |-> ctx, Body |-> m.bytes,
                Header |-> HeaderSet(h2, "User-Agent", cl.userAgent)]
    IN [cl |-> cl]
       @@ (IF ~m.ok
           THEN Round(Ptr(Errorf("failed to marshal request body", Deref(m.err))),
                      result, <<>>, NIL, 0, 0)
           ELSE IF ParseURLFails(fullURL)
           THEN Round(Ptr(Errorf("failed to create request",
                                 LibraryError("invalid character \" \" in host name"))),
                      result, <<>>, NIL, 0, 0)
           ELSE perform(req, net.outcome, result))

requestCustomHeadersLast(cl, ctx, method, path, body, result, net) ==
    LET fullURL == cl.baseURL \o path
        m == IF body = NIL THEN [ok |-> TRUE, bytes |-> NIL, err |-> NIL]
             ELSE Marshal(Deref(body))
        h0 == <<>>
        h1 == IF cl.jwt # NIL
              THEN HeaderSet(h0, HeaderAuthorization, "Bearer " \o Deref(cl.jwt))
              ELSE h0
        h2 == IF cl.apiKey # NIL THEN HeaderSet(h1, HeaderAPIKey, Deref(cl.apiKey))
              ELSE h1
        req == [Method |-> method, URL |-> fullURL, ctx |-> ctx, Body |-> m.bytes,
                Header |-> net.header @@ HeaderSet(h2, "User-Agent", cl.userAgent)]
    IN [cl |-> cl]
       @@ (IF ~m.ok
           THEN Round(Ptr(Errorf("failed to marshal request body", Deref(m.err))),
                      result, <<>>, NIL, 0, 0)
           ELSE IF ParseURLFails(fullURL)
           THEN Round(Ptr(Errorf("failed to create request",
                                 LibraryError("invalid character \" \" in host name"))),
                      result, <<>>, NIL, 0, 0)
           ELSE perform(req, net.outcome, result))

requestStoringBearer(cl, ctx, method, path, body, result, net) ==
    LET fullURL == cl.baseURL \o path
        m == IF body = NIL THEN [ok |-> TRUE, bytes |-> NIL, err |-> NIL]
             ELSE Marshal(Deref(body))
        h0 == net.header
        h1 == IF cl.jwt # NIL
              THEN HeaderSet(h0, HeaderAuthorization, "Bearer " \o Deref(cl.jwt))
              ELSE h0
        h2 == IF cl.apiKey # NIL THEN HeaderSet(h1, HeaderAPIKey, Deref(cl.apiKey))
              ELSE h1
        req == [Method |-> method, URL |-> fullURL, ctx |-> ctx, Body |-> m.bytes,
                Header |-> HeaderSet(h2, "User-Agent", cl.userAgent)]
    IN [cl |-> IF cl.jwt # NIL
               THEN [cl EXCEPT !.headers = (HeaderAuthorization :> "Bearer " \o Deref(cl.jwt))
                                               @@ cl.headers]
               ELSE cl]
       @@ (IF ~m.ok
           THEN Round(Ptr(Errorf("failed to marshal request body", Deref(m.err))),
                      result, <<>>, NIL, 0, 0)
           ELSE IF ParseURLFails(fullURL)
           THEN Round(Ptr(Errorf("failed to create request",
                                 LibraryError("invalid character \" \" in host name"))),
                      result, <<>>, NIL, 0, 0)
           ELSE perform(req, net.outcome, result))

request(cl, ctx, method, path, body, result, net) ==
    LET fullURL == cl.baseURL \o path
        m == IF body = NIL THEN [ok |-> TRUE, bytes |-> NIL, err |-> NIL]
             ELSE Marshal(Deref(body))
        h0 == net.header
        h1 == IF cl.jwt # NIL
              THEN HeaderSet(h0, HeaderAuthorization, "Bearer " \o Deref(cl.jwt))
              ELSE h0
        h2 == IF cl.apiKey # NIL THEN HeaderSet(h1, HeaderAPIKey, Deref(cl.apiKey))
              ELSE h1
        req == [Method |-> method, URL |-> fullURL, ctx |-> ctx, Body |-> m.bytes,
                Header |-> HeaderSet(h2, "User-Agent", cl.userAgent)]
    IN [cl |-> cl]
       @@ (IF ~m.ok
           THEN Round(Ptr(Errorf("failed to marshal request body", Deref(m.err))),
                      result, <<>>, NIL, 0, 0)
           ELSE IF ParseURLFails(fullURL)
           THEN Round(Ptr(Errorf("failed to create request",
                                 LibraryError("invalid character \" \" in host name"))),
                      result, <<>>, NIL, 0, 0)
           ELSE perform(req, net.outcome, result))

---------------------------------------------------------------------------
(* The public operations of the Client *)

\* What one call of a public operation did: the pair it returned (result is
\* nil for an operation that returns an error only), the local result
\* variable after the call (dest, nil if the operation has none), and the
\* trace of its round trip.
Returned(result, e, dest, reqs, resp, closes, decodes) ==
    [result |-> result, err |-> e, dest |-> dest, reqs |-> reqs, resp |-> resp,
     closes |-> closes, decodes |-> decodes]

\* return nil, &ValidationError{...} before any round trip
Invalid(field, reason) ==
    Returned(NIL, Ptr(ValidationError(field, reason)), NIL, <<>>, NIL, 0, 0)

ResultOfKeepingResult(r) ==
    [cl |-> r.cl]
    @@ Returned(r.result, r.err, r.result, r.reqs, r.resp, r.closes, r.decodes)

\* if err != nil { return nil, err }; return &result, nil
\* (cl is the client after the round trip)
ResultOf(r) ==
    [cl |-> r.cl]
    @@ Returned(IF r.err # NIL THEN NIL ELSE r.result, r.err, r.result,
                r.reqs, r.resp, r.closes, r.decodes)

\* return c.request(..., nil)
ErrorOf(r) ==
    [cl |-> r.cl] @@ Returned(NIL, r.err, NIL, r.reqs, r.resp, r.closes, r.decodes)

RegisterChainhook(cl, ctx, definition, net) ==
    IF definition = NIL THEN Invalid("definition", "definition cannot be nil")
    ELSE ResultOf(request(cl, ctx, MethodPOST, EndpointChainhooks,
                          Body("ChainhookDefinition", Deref(definition)),
                          Ptr(ZeroResult("Chainhook")), net))

UpdateChainhook(cl, ctx, uuid, definition, net) ==
    IF uuid = "" THEN Invalid("uuid", "uuid cannot be empty")
    ELSE IF definition = NIL THEN Invalid("definition", "definition cannot be nil")
    ELSE ResultOf(request(cl, ctx, MethodPATCH, EndpointChainhook(uuid),
                          Body("ChainhookDefinition", Deref(definition)),
                          Ptr(ZeroResult("Chainhook")), net))

\* url.Values: the parameters by key; Set replaces the value of a key
Values == <<>>

ValuesSet(v, key, value) == (key :> value) @@ v

\* the order of strings that sort.Strings uses, on lower-case keys
RECURSIVE StringLess(_, _)
StringLess(s, t) ==
    IF t = "" THEN FALSE
    ELSE IF s = "" THEN TRUE
    ELSE IF Char(s, 1) # Char(t, 1)
         THEN IndexIn(LowerLetters, Char(s, 1)) < IndexIn(LowerLetters, Char(t, 1))
    ELSE StringLess(SubSeq(s, 2, Len(s)), SubSeq(t, 2, Len(t)))

RECURSIVE EncodeKeys(_, _, _)
EncodeKeys(v, keys, first) ==
    IF keys = {} THEN ""
    ELSE LET k == CHOOSE x \in keys : \A y \in keys \ {x} : first[x, y]
         IN k \o "=" \o v[k]
              \o (IF keys = {k} THEN "" ELSE "&" \o EncodeKeys(v, keys \ {k}, first))

EncodeDescending(v) ==
    EncodeKeys(v, DOMAIN v, [x, y \in DOMAIN v |-> StringLess(y, x)])

\* url.Values.Encode: "key=value" joined by "&", sorted by key; the values
\* here are decimal numbers, which QueryEscape leaves as they are
Encode(v) ==
    EncodeKeys(v, DOMAIN v, [x, y \in DOMAIN v |-> StringLess(x, y)])

GetChainhooks(cl, ctx, opts, net) ==
    LET params == ValuesSet(ValuesSet(Values, "offset", Decimal(Deref(opts).Offset)),
                            "limit", Decimal(Deref(opts).Limit))
        path == IF opts = NIL THEN EndpointChainhooks
                ELSE EndpointChainhooks \o "?" \o Encode(params)
    IN ResultOf(request(cl, ctx, MethodGET, path, NIL,
                        Ptr(ZeroResult("PaginatedChainhookResponse")), net))

GetChainhookUnchecked(cl, ctx, uuid, net) ==
    ResultOf(request(cl, ctx, MethodGET, EndpointChainhook(uuid), NIL,
                     Ptr(ZeroResult("Chainhook")), net))

GetChainhook(cl, ctx, uuid, net) ==
    IF uuid = "" THEN Invalid("uuid", "uuid cannot be empty")
    ELSE ResultOf(request(cl, ctx, MethodGET, EndpointChainhook(uuid), NIL,
                          Ptr(ZeroResult("Chainhook")), net))

EnableChainhookAtBulkPath(cl, ctx, uuid, enabled, net) ==
    IF uuid = "" THEN Invalid("uuid", "uuid cannot be empty")
    ELSE ErrorOf(request(cl, ctx, MethodPATCH, EndpointBulkEnabled,
                         Body("map[string]bool", [enabled |-> enabled]), NIL, net))

EnableChainhook(cl, ctx, uuid, enabled, net) ==
    IF uuid = "" THEN Invalid("uuid", "uuid cannot be empty")
    ELSE ErrorOf(request(cl, ctx, MethodPATCH, EndpointChainhookEnabled(uuid),
                         Body("map[string]bool", [enabled |-> enabled]), NIL, net))

BulkEnableChainhooksNeedingAll(cl, ctx, req, net) ==
    IF req = NIL THEN Invalid("request", "request cannot be nil")
    ELSE IF \/ Len(Deref(req).UUIDs) = 0
            \/ Deref(req).WebhookURL = NIL
            \/ Len(Deref(req).Statuses) = 0
    THEN Invalid("request",
                 "at least one filter (uuids, webhook_url, or statuses) must be provided")
    ELSE ResultOf(request(cl, ctx, MethodPATCH, EndpointBulkEnabled,
                          Body("BulkEnableChainhooksRequest", Deref(req)),
                          Ptr(ZeroResult("BulkEnableChainhooksResponse")), net))

BulkEnableChainhooks(cl, ctx, req, net) ==
    IF req = NIL THEN Invalid("request", "request cannot be nil")
    ELSE IF /\ Len(Deref(req).UUIDs) = 0
            /\ Deref(req).WebhookURL = NIL
            /\ Len(Deref(req).Statuses) = 0
    THEN Invalid("request",
                 "at least one filter (uuids, webhook_url, or statuses) must be provided")
    ELSE ResultOf(request(cl, ctx, MethodPATCH, EndpointBulkEnabled,
                          Body("BulkEnableChainhooksRequest", Deref(req)),
                          Ptr(ZeroResult("BulkEnableChainhooksResponse")), net))

DeleteChainhook(cl, ctx, uuid, net) ==
    IF uuid = "" THEN Invalid("uuid", "uuid cannot be empty")
    ELSE ErrorOf(request(cl, ctx, MethodDELETE, EndpointChainhook(uuid), NIL, NIL, net))

RotateConsumerSecret(cl, ctx, net) ==
    ResultOf(request(cl, ctx, MethodPOST, EndpointConsumerSecret, NIL,
                     Ptr(ZeroResult("ConsumerSecretResponse")), net))

GetConsumerSecret(cl, ctx, net) ==
    ResultOf(request(cl, ctx, MethodGET, EndpointConsumerSecret, NIL,
                     Ptr(ZeroResult("ConsumerSecretResponse")), net))

DeleteConsumerSecret(cl, ctx, net) ==
    ErrorOf(request(cl, ctx, MethodDELETE, EndpointConsumerSecret, NIL, NIL, net))

EvaluateChainhook(cl, ctx, uuid, blockHeight, net) ==
    IF uuid = "" THEN Invalid("uuid", "uuid cannot be empty")
    ELSE ErrorOf(request(cl, ctx, MethodPOST, EndpointEvaluate(uuid),
                         Body("EvaluateChainhookRequest", [BlockHeight |-> blockHeight]),
                         NIL, net))

GetStatus(cl, ctx, net) ==
    ResultOf(request(cl, ctx, MethodGET, EndpointStatus, NIL,
                     Ptr(ZeroResult("ApiStatusResponse")), net))

\* the query and bulk helpers
NewPaginationOptions(offset, limit) == Ptr([Offset |-> offset, Limit |-> limit])

BulkEnableUUIDs(enabled, uuids) ==
    Ptr([Enabled |-> enabled, UUIDs |-> uuids, WebhookURL |-> NIL, Statuses |-> <<>>])

BulkEnableByWebhook(enabled, webhookURL) ==
    Ptr([Enabled |-> enabled, UUIDs |-> <<>>, WebhookURL |-> StringPtr(webhookURL),
         Statuses |-> <<>>])

BulkEnableByStatus(enabled, statuses) ==
    Ptr([Enabled |-> enabled, UUIDs |-> <<>>, WebhookURL |-> NIL, Statuses |-> statuses])

---------------------------------------------------------------------------
(* The calls a program makes on one ChainhookBuilder *)

\* what a fluent method returns: the builder itself, no definition, no error
Fluent == [op |-> "fluent", def |-> NIL, err |-> NIL]

\* a fluent method that touches the builder only
BuilderCall(nb) ==
    /\ b' = nb
    /\ ret' = Fluent
    /\ UNCHANGED <<held, heap, optionCalls, cvars, evars, gvars, ovars>>

\* the model stops adding filters and calling option setters at MaxAdds
MayAdd == Len(b.filters) + optionCalls < MaxAdds

\* an AddX method
AddCall(nb) ==
    /\ MayAdd
    /\ BuilderCall(nb)

\* an option setter
OptionCall(st) ==
    /\ MayAdd
    /\ b' = st.b
    /\ heap' = st.heap
    /\ ret' = Fluent
    /\ optionCalls' = optionCalls + 1
    /\ UNCHANGED <<held, cvars, evars, gvars, ovars>>

State == [b |-> b, heap |-> heap]

CallWithName == \E name \in Names : BuilderCall(WithName(b, name))

CallWithNetwork ==
    \E network \in Networks : BuilderCall(WithNetwork(b, network))

CallWithWebhookURL ==
    \E url \in WebhookURLs : BuilderCall(WithWebhookURL(b, url))

\* AddFilter called directly: with a nil EventFilter, or with a filter value
\* the caller made (here an STX event filter)
CallerFilters ==
    {NIL,
     Ptr([struct |-> "STXEventFilter", Type |-> "stx_event", Action |-> "",
          Sender |-> NIL, Receiver |-> NIL, Amount |-> NIL])}

CallAddFilter == \E filter \in CallerFilters : AddCall(AddFilter(b, filter))

\* The optional arguments of one AddX call are all nil or all supplied; the
\* values differ by position so that an argument stored in the wrong field
\* shows.
Supplied(given, v) == IF given THEN v ELSE NIL
Sender == PrincipalStandard("SP1")
Receiver == PrincipalContract("SP2.pool")
Amount == StringPtr("100")
ContractID == StringPtr("SP2.pool")
Method == StringPtr("swap")

CallAddFTTransfer ==
    \E asset \in Assets, given \in BOOLEAN :
        AddCall(AddFTTransfer(b, asset, Supplied(given, Sender),
                              Supplied(given, Receiver), Supplied(given, Amount)))

CallAddFTMint ==
    \E asset \in Assets, given \in BOOLEAN :
        AddCall(AddFTMint(b, asset, Supplied(given, Receiver), Supplied(given, Amount)))

CallAddFTBurn ==
    \E asset \in Assets, given \in BOOLEAN :
        AddCall(AddFTBurn(b, asset, Supplied(given, Sender), Supplied(given, Amount)))

CallAddNFTTransfer ==
    \E asset \in Assets, given \in BOOLEAN :
        AddCall(AddNFTTransfer(b, asset, Supplied(given, Sender),
                               Supplied(given, Receiver)))

CallAddNFTMint ==
    \E asset \in Assets, given \in BOOLEAN :
        AddCall(AddNFTMint(b, asset, Supplied(given, Receiver)))

CallAddNFTBurn ==
    \E asset \in Assets, given \in BOOLEAN :
        AddCall(AddNFTBurn(b, asset, Supplied(given, Sender)))

CallAddSTXTransfer ==
    \E given \in BOOLEAN :
        AddCall(AddSTXTransfer(b, Supplied(given, Sender), Supplied(given, Receiver),
                               Supplied(given, Amount)))

CallAddSTXMint ==
    \E given \in BOOLEAN :
        AddCall(AddSTXMint(b, Supplied(given, Receiver), Supplied(given, Amount)))

CallAddSTXBurn ==
    \E given \in BOOLEAN :
        AddCall(AddSTXBurn(b, Supplied(given, Sender), Supplied(given, Amount)))

CallAddContractDeploy ==
    \E given \in BOOLEAN : AddCall(AddContractDeploy(b, Supplied(given, Sender)))

CallAddContractCall ==
    \E given \in BOOLEAN :
        AddCall(AddContractCall(b, Supplied(given, ContractID), Supplied(given, Method),
                                Supplied(given, Sender)))

CallAddContractLog ==
    \E given \in BOOLEAN : AddCall(AddContractLog(b, Supplied(given, ContractID)))

CallAddBalanceChange ==
    \E given \in BOOLEAN : AddCall(AddBalanceChange(b, Supplied(given, Sender)))

CallAddCoinbase ==
    \E given \in BOOLEAN : AddCall(AddCoinbase(b, Supplied(given, Receiver)))

CallAddTenureChange == AddCall(AddTenureChange(b))

\* WithOptions with nil or with the caller's options object
CallWithOptions ==
    \E opts \in {NIL, Ptr("caller")} :
        /\ LET st == WithOptions(State, opts)
           IN /\ b' = st.b
              /\ heap' = st.heap
        /\ ret' = Fluent
        /\ UNCHANGED <<held, optionCalls, cvars, evars, gvars, ovars>>

CallWithEnableOnRegistration ==
    \E v \in BOOLEAN :
        OptionCall(WithEnableOnRegistration(State, v))
CallWithExpireAfterEvaluations ==
    \E n \in Counts :
        OptionCall(WithExpireAfterEvaluations(State, n))
CallWithExpireAfterOccurrences ==
    \E n \in Counts :
        OptionCall(WithExpireAfterOccurrences(State, n))
CallWithDecodeClarityValues ==
    \E v \in BOOLEAN :
        OptionCall(WithDecodeClarityValues(State, v))
CallWithIncludeContractABI ==
    \E v \in BOOLEAN :
        OptionCall(WithIncludeContractABI(State, v))
CallWithIncludeContractSourceCode ==
    \E v \in BOOLEAN :
        OptionCall(WithIncludeContractSourceCode(State, v))
CallWithIncludePostConditions ==
    \E v \in BOOLEAN :
        OptionCall(WithIncludePostConditions(State, v))
CallWithIncludeRawTransactions ==
    \E v \in BOOLEAN :
        OptionCall(WithIncludeRawTransactions(State, v))
CallWithIncludeBlockSignatures ==
    \E v \in BOOLEAN :
        OptionCall(WithIncludeBlockSignatures(State, v))
CallWithIncludeBlockMetadata ==
    \E v \in BOOLEAN :
        OptionCall(WithIncludeBlockMetadata(State, v))

\* The add calls a program can make on builder bb, each with the name of the
\* method and whether the optional arguments were supplied (for AddFilter:
\* the filter passed).
Adds(bb) ==
    {[method |-> "AddFilter", given |-> filter, b |-> AddFilter(bb, filter)] :
         filter \in CallerFilters}
    \cup UNION {
      {[method |-> "AddFTTransfer", given |-> given,
        b |-> AddFTTransfer(bb, asset, Supplied(given, Sender), Supplied(given, Receiver),
                            Supplied(given, Amount))],
       [method |-> "AddFTMint", given |-> given,
        b |-> AddFTMint(bb, asset, Supplied(given, Receiver), Supplied(given, Amount))],
       [method |-> "AddFTBurn", given |-> given,
        b |-> AddFTBurn(bb, asset, Supplied(given, Sender), Supplied(given, Amount))],
       [method |-> "AddNFTTransfer", given |-> given,
        b |-> AddNFTTransfer(bb, asset, Supplied(given, Sender), Supplied(given, Receiver))],
       [method |-> "AddNFTMint", given |-> given,
        b |-> AddNFTMint(bb, asset, Supplied(given, Receiver))],
       [method |-> "AddNFTBurn", given |-> given,
        b |-> AddNFTBurn(bb, asset, Supplied(given, Sender))],
       [method |-> "AddSTXTransfer", given |-> given,
        b |-> AddSTXTransfer(bb, Supplied(given, Sender), Supplied(given, Receiver),
                             Supplied(given, Amount))],
       [method |-> "AddSTXMint", given |-> given,
        b |-> AddSTXMint(bb, Supplied(given, Receiver), Supplied(given, Amount))],
       [method |-> "AddSTXBurn", given |-> given,
        b |-> AddSTXBurn(bb, Supplied(given, Sender), Supplied(given, Amount))],
       [method |-> "AddContractDeploy", given |-> given,
        b |-> AddContractDeploy(bb, Supplied(given, Sender))],
       [method |-> "AddContractCall", given |-> given,
        b |-> AddContractCall(bb, Supplied(given, ContractID), Supplied(given, Method),
                              Supplied(given, Sender))],
       [method |-> "AddContractLog", given |-> given,
        b |-> AddContractLog(bb, Supplied(given, ContractID))],
       [method |-> "AddBalanceChange", given |-> given,
        b |-> AddBalanceChange(bb, Supplied(given, Sender))],
       [method |-> "AddCoinbase", given |-> given,
        b |-> AddCoinbase(bb, Supplied(given, Receiver))],
       [method |-> "AddTenureChange", given |-> given, b |-> AddTenureChange(bb)]} :
      asset \in Assets, given \in BOOLEAN}

\* one add call, of which the caller keeps the method and the arguments
CallAdd ==
    /\ Len(b.filters) < MaxFilters
    /\ \E a \in Adds(b) :
           /\ b' = a.b
           /\ ret' = [op |-> a.method, def |-> NIL, err |-> NIL, given |-> a.given]
    /\ UNCHANGED <<held, heap, optionCalls, cvars, evars, gvars, ovars>>

CallBuild ==
    /\ LET r == Build(b)
       IN /\ b' = r.b
          /\ ret' = [op |-> "Build", def |-> r.def, err |-> r.err]
    /\ UNCHANGED <<held, heap, optionCalls, cvars, evars, gvars, ovars>>

\* the option setters, each with the field it is documented to set, the
\* value given, and the builder and objects after the call
OptionSets(st) ==
    UNION {
      {[method |-> "WithEnableOnRegistration", field |-> "EnableOnRegistration",
        value |-> BoolPtr(v), st |-> WithEnableOnRegistration(st, v)],
       [method |-> "WithDecodeClarityValues", field |-> "DecodeClarityValues",
        value |-> BoolPtr(v), st |-> WithDecodeClarityValues(st, v)],
       [method |-> "WithIncludeContractABI", field |-> "IncludeContractABI",
        value |-> BoolPtr(v), st |-> WithIncludeContractABI(st, v)],
       [method |-> "WithIncludeContractSourceCode", field |-> "IncludeContractSourceCode",
        value |-> BoolPtr(v), st |-> WithIncludeContractSourceCode(st, v)],
       [method |-> "WithIncludePostConditions", field |-> "IncludePostConditions",
        value |-> BoolPtr(v), st |-> WithIncludePostConditions(st, v)],
       [method |-> "WithIncludeRawTransactions", field |-> "IncludeRawTransactions",
        value |-> BoolPtr(v), st |-> WithIncludeRawTransactions(st, v)],
       [method |-> "WithIncludeBlockSignatures", field |-> "IncludeBlockSignatures",
        value |-> BoolPtr(v), st |-> WithIncludeBlockSignatures(st, v)],
       [method |-> "WithIncludeBlockMetadata", field |-> "IncludeBlockMetadata",
        value |-> BoolPtr(v), st |-> WithIncludeBlockMetadata(st, v)]} :
      v \in BOOLEAN}
    \cup UNION {
      {[method |-> "WithExpireAfterEvaluations", field |-> "ExpireAfterEvaluations",
        value |-> Uint64Ptr(n), st |-> WithExpireAfterEvaluations(st, n)],
       [method |-> "WithExpireAfterOccurrences", field |-> "ExpireAfterOccurrences",
        value |-> Uint64Ptr(n), st |-> WithExpireAfterOccurrences(st, n)]} :
      n \in Counts}

\* what the caller has asked for with the option setters called in a row so far
Asked == IF "asked" \in DOMAIN ret THEN ret.asked ELSE NewChainhookOptions

\* one option setter call, of which the caller keeps the method, the field
\* and the value
CallOption ==
    /\ optionCalls < MaxOptionCalls
    /\ \E s \in OptionSets(State) :
           /\ b' = s.st.b
           /\ heap' = s.st.heap
           /\ ret' = [op |-> s.method, def |-> NIL, err |-> NIL,
                      field |-> s.field, value |-> s.value,
                      asked |-> [Asked EXCEPT ![s.field] = s.value]]
    /\ optionCalls' = optionCalls + 1
    /\ UNCHANGED <<held, cvars, evars, gvars, ovars>>

\* one WithOptions call, with nil or with the object the caller holds, of
\* which the caller keeps the argument
CallSetOptions ==
    /\ optionCalls < MaxOptionCalls
    /\ \E opts \in {NIL, Ptr("caller")} :
           LET st == WithOptions(State, opts)
           IN /\ b' = st.b
              /\ heap' = st.heap
              /\ ret' = [op |-> "WithOptions", def |-> NIL, err |-> NIL, given |-> opts]
    /\ optionCalls' = optionCalls + 1
    /\ UNCHANGED <<held, cvars, evars, gvars, ovars>>

\* WithName, WithNetwork and WithWebhookURL, each with the field of the
\* definition it is documented to set, the value that field gets, and the
\* builder after the call
Withs(bb) ==
    {[method |-> "WithName", field |-> "Name", value |-> name,
      b |-> WithName(bb, name)] : name \in Names}
    \cup {[method |-> "WithNetwork", field |-> "Network", value |-> network,
           b |-> WithNetwork(bb, network)] : network \in Networks}
    \cup {[method |-> "WithWebhookURL", field |-> "Action",
           value |-> [Type |-> "http_post", URL |-> url],
           b |-> WithWebhookURL(bb, url)] : url \in WebhookURLs}

\* one call of WithName, WithNetwork or WithWebhookURL, of which the caller
\* keeps the method and the value
CallWith ==
    /\ \E w \in Withs(b) :
           /\ b' = w.b
           /\ ret' = [op |-> w.method, def |-> NIL, err |-> NIL,
                      field |-> w.field, value |-> w.value]
    /\ UNCHANGED <<held, heap, optionCalls, cvars, evars, gvars, ovars>>

\* the calls made on a builder whose definition the caller keeps: the
\* filters are added with these methods and the options set with these
KeptAdds == {"AddCoinbase", "AddTenureChange"}
KeptOptions == {"EnableOnRegistration"}

CallKeptAdd ==
    /\ Len(b.filters) < MaxFilters
    /\ \E a \in {x \in Adds(b) : x.method \in KeptAdds} :
           /\ b' = a.b
           /\ ret' = [op |-> a.method, def |-> NIL, err |-> NIL, given |-> a.given]
    /\ UNCHANGED <<held, heap, optionCalls, cvars, evars, gvars, ovars>>

CallKeptOption ==
    /\ optionCalls < MaxOptionCalls
    /\ \E s \in {x \in OptionSets(State) : x.field \in KeptOptions} :
           /\ b' = s.st.b
           /\ heap' = s.st.heap
           /\ ret' = [op |-> s.method, def |-> NIL, err |-> NIL,
                      field |-> s.field, value |-> s.value]
    /\ optionCalls' = optionCalls + 1
    /\ UNCHANGED <<held, cvars, evars, gvars, ovars>>

\* Build, of which the caller keeps the pointer returned the first time it
\* succeeds
CallBuildKept ==
    /\ LET r == Build(b)
       IN /\ b' = r.b
          /\ ret' = [op |-> "Build", def |-> r.def, err |-> r.err, ref |-> r.ref]
          /\ held' = IF held = NIL THEN r.ref ELSE held
    /\ UNCHANGED <<heap, optionCalls, cvars, evars, gvars, ovars>>

\* the options object the caller holds, made with NewChainhookOptions or a
\* ChainhookOptionsBuilder before the builder is used
CallerOptions ==
    [NewChainhookOptions EXCEPT !["DecodeClarityValues"] = BoolPtr(TRUE)]

---------------------------------------------------------------------------
(* The calls a program makes on one Client, one after the other *)

\* no call in progress
Idle ==
    [op |-> "none", args |-> <<>>] @@ Returned(NIL, NIL, NIL, <<>>, NIL, 0, 0)

\* the caller makes one call at a time
NoCall == out.op = "none"

\* r is what the operation returned and did; an operation that went through
\* the round trip also tells the client it left behind
ClientCall(op, args, r) ==
    /\ out' = [op |-> op, args |-> args] @@ [k \in DOMAIN r \ {"cl"} |-> r[k]]
    /\ c' = IF "cl" \in DOMAIN r THEN r.cl ELSE c
    /\ UNCHANGED <<bvars, evars, gvars, ovars>>

\* a setter returns nothing
SetterCall(cl) ==
    /\ NoCall
    /\ c' = cl
    /\ UNCHANGED <<out, bvars, evars, gvars, ovars>>

UUIDs == {"", "u1"}

\* a definition made with the builder, and a hand-made one whose events
\* hold a value that cannot be encoded
BuiltDefinition ==
    Deref(Build(AddTenureChange(WithWebhookURL(
        NewChainhookBuilder("hook", NetworkMainnet), "https://example.com/webhook"))).def)

HandMadeDefinition == [BuiltDefinition EXCEPT !.Filters.Events = <<Unencodable>>]

Definitions == {NIL, Ptr(BuiltDefinition), Ptr(HandMadeDefinition)}

BulkRequests ==
    {NIL,
     Ptr([Enabled |-> TRUE, UUIDs |-> <<>>, WebhookURL |-> NIL, Statuses |-> <<>>]),
     BulkEnableUUIDs(TRUE, <<"u1">>),
     BulkEnableByWebhook(FALSE, "https://example.com/webhook"),
     Ptr([Enabled |-> TRUE, UUIDs |-> <<"u1">>, WebhookURL |-> NIL,
          Statuses |-> <<"new", "streaming">>]),
     Ptr([Enabled |-> FALSE, UUIDs |-> <<"u1", "u2">>, WebhookURL |-> StringPtr(""),
          Statuses |-> <<"new">>])}

Paginations == {NIL, NewPaginationOptions(0, 10), NewPaginationOptions(25, 5)}

BlockHeights == {100}

CallRegisterChainhook ==
    /\ NoCall
    /\ \E ctx \in Contexts, definition \in Definitions : \E net \in Nets(c, ctx) :
           ClientCall("RegisterChainhook", [ctx |-> ctx, definition |-> definition],
                      RegisterChainhook(c, ctx, definition, net))

CallUpdateChainhook ==
    /\ NoCall
    /\ \E ctx \in Contexts, uuid \in UUIDs, definition \in Definitions : \E net \in Nets(c, ctx) :
           ClientCall("UpdateChainhook",
                      [ctx |-> ctx, uuid |-> uuid, definition |-> definition],
                      UpdateChainhook(c, ctx, uuid, definition, net))

CallGetChainhooks ==
    /\ NoCall
    /\ \E ctx \in Contexts, opts \in Paginations : \E net \in Nets(c, ctx) :
           ClientCall("GetChainhooks", [ctx |-> ctx, opts |-> opts],
                      GetChainhooks(c, ctx, opts, net))

CallGetChainhook ==
    /\ NoCall
    /\ \E ctx \in Contexts, uuid \in UUIDs : \E net \in Nets(c, ctx) :
           ClientCall("GetChainhook", [ctx |-> ctx, uuid |-> uuid],
                      GetChainhook(c, ctx, uuid, net))

CallEnableChainhook ==
    /\ NoCall
    /\ \E ctx \in Contexts, uuid \in UUIDs, enabled \in BOOLEAN : \E net \in Nets(c, ctx) :
           ClientCall("EnableChainhook", [ctx |-> ctx, uuid |-> uuid, enabled |-> enabled],
                      EnableChainhook(c, ctx, uuid, enabled, net))

CallBulkEnableChainhooks ==
    /\ NoCall
    /\ \E ctx \in Contexts, req \in BulkRequests : \E net \in Nets(c, ctx) :
           ClientCall("BulkEnableChainhooks", [ctx |-> ctx, request |-> req],
                      BulkEnableChainhooks(c, ctx, req, net))

CallDeleteChainhook ==
    /\ NoCall
    /\ \E ctx \in Contexts, uuid \in UUIDs : \E net \in Nets(c, ctx) :
           ClientCall("DeleteChainhook", [ctx |-> ctx, uuid |-> uuid],
                      DeleteChainhook(c, ctx, uuid, net))

CallRotateConsumerSecret ==
    /\ NoCall
    /\ \E ctx \in Contexts : \E net \in Nets(c, ctx) :
           ClientCall("RotateConsumerSecret", [ctx |-> ctx],
                      RotateConsumerSecret(c, ctx, net))

CallGetConsumerSecret ==
    /\ NoCall
    /\ \E ctx \in Contexts : \E net \in Nets(c, ctx) :
           ClientCall("GetConsumerSecret", [ctx |-> ctx], GetConsumerSecret(c, ctx, net))

CallDeleteConsumerSecret ==
    /\ NoCall
    /\ \E ctx \in Contexts : \E net \in Nets(c, ctx) :
           ClientCall("DeleteConsumerSecret", [ctx |-> ctx],
                      DeleteConsumerSecret(c, ctx, net))

CallEvaluateChainhook ==
    /\ NoCall
    /\ \E ctx \in Contexts, uuid \in UUIDs, blockHeight \in BlockHeights : \E net \in Nets(c, ctx) :
           ClientCall("EvaluateChainhook",
                      [ctx |-> ctx, uuid |-> uuid, blockHeight |-> blockHeight],
                      EvaluateChainhook(c, ctx, uuid, blockHeight, net))

CallGetStatus ==
    /\ NoCall
    /\ \E ctx \in Contexts : \E net \in Nets(c, ctx) :
           ClientCall("GetStatus", [ctx |-> ctx], GetStatus(c, ctx, net))

CallSetAPIKey == SetterCall(SetAPIKey(c, "key-2"))

CallSetJWT == SetterCall(SetJWT(c, "jwt-2"))

CallSetHeader ==
    \E h \in {<<"accept", "custom">>, <<"Authorization", "Bearer custom">>} :
        SetterCall(SetHeader(c, h[1], h[2]))

\* SetHeader for the names the client itself sets, in the spelling of the
\* defaults and in another
NamedHeaders ==
    {"Accept", "accept", "Content-Type", "Authorization", "x-api-key", "User-Agent"}

CallSetNamedHeader ==
    \E key \in NamedHeaders : SetterCall(SetHeader(c, key, "custom"))

\* the call in progress returns to the caller, who may then make the next
Return ==
    /\ out.op # "none"
    /\ out' = Idle
    /\ UNCHANGED <<c, bvars, evars, gvars, ovars>>

\* the configurations clients are constructed from
Configs ==
    {NIL,
     Ptr(ClientConfig("https://api.example.com/", StringPtr("key-1"), NIL,
                      Ptr([Timeout |-> 10]), 5, "custom-agent/2")),
     Ptr(ClientConfig("http://bad host", NIL, StringPtr("jwt-1"), NIL, 0, "")),
     Ptr(ClientConfig("https://api.example.com//", NIL, NIL, NIL, 0, ""))}

---------------------------------------------------------------------------
(* The calls a program makes on the classification helpers with one error *)

\* the largest status code an HttpError of the model carries
MaxStatusCode == 999

Errors ==
    {NIL,
     Ptr(ValidationError("uuid", "uuid cannot be empty")),
     Ptr([kind |-> "ConfigError", Message |-> "bad configuration"]),
     Ptr(Errorf("failed to perform request", LibraryError("connection refused"))),
     Ptr(LibraryError("context canceled"))}
    \cup {Ptr(HttpError(s, "https://api.example.com/chainhooks", MethodGET, <<>>, "", ""))
             : s \in 0..MaxStatusCode}

\* no helper asked yet
Unasked == [helper |-> "none", answer |-> FALSE]

Ask(helper, answer) ==
    /\ class.helper = "none"
    /\ class' = [helper |-> helper, answer |-> answer]
    /\ UNCHANGED <<err, bvars, cvars, gvars, ovars>>

CallIsHttpError == Ask("IsHttpError", IsHttpError(err))
CallAsHttpError == Ask("AsHttpError", AsHttpError(err))
CallGetHttpStatusCode == Ask("GetHttpStatusCode", GetHttpStatusCode(err))
CallIsNotFound == Ask("IsNotFound", IsNotFound(err))
CallIsUnauthorized == Ask("IsUnauthorized", IsUnauthorized(err))
CallIsForbidden == Ask("IsForbidden", IsForbidden(err))
CallIsServerError == Ask("IsServerError", IsServerError(err))
CallIsClientError == Ask("IsClientError", IsClientError(err))

---------------------------------------------------------------------------
(* Goroutines that share one Client *)

\* The Client has no lock and no atomic field: each method reads or writes
\* the fields directly.  A call is modelled by the accesses it makes to the
\* fields a setter can write (headers, jwt, apiKey), one step per access,
\* so that calls of different goroutines interleave as the scheduler allows.
Goroutines == {"A", "B"}

\* a goroutine that is in no call of the Client
Resting ==
    [op |-> "none", pc |-> "none", key |-> "", value |-> "", todo |-> {},
     header |-> <<>>]

OtherVars == <<out, bvars, evars, ovars>>

\* the access to a field of the Client that goroutine i makes next
Access(i) ==
    CASE g[i].pc = "range" -> [field |-> "headers", write |-> FALSE]
      [] g[i].pc = "jwt" -> [field |-> "jwt", write |-> FALSE]
      [] g[i].pc = "apiKey" -> [field |-> "apiKey", write |-> FALSE]
      [] g[i].pc = "do" -> [field |-> "userAgent", write |-> FALSE]
      [] g[i].pc = "write" /\ g[i].op = "SetHeader" -> [field |-> "headers", write |-> TRUE]
      [] g[i].pc = "write" /\ g[i].op = "SetJWT" -> [field |-> "jwt", write |-> TRUE]
      [] g[i].pc = "write" /\ g[i].op = "SetAPIKey" -> [field |-> "apiKey", write |-> TRUE]
      [] OTHER -> [field |-> "none", write |-> FALSE]

\* two goroutines are about to access the same field, one of them writing,
\* and nothing orders the two accesses
Conflict(i, j) ==
    /\ i # j
    /\ Access(i).field # "none"
    /\ Access(i).field = Access(j).field
    /\ Access(i).write \/ Access(j).write

DataRace == \E i, j \in Goroutines : Conflict(i, j)

\* a goroutine calls an API operation (GetStatus, which has no pre-check):
\* Client.request starts its loop over c.headers
GoRequest(i) ==
    /\ ~fatal
    /\ g[i].op = "none"
    /\ g' = [g EXCEPT ![i] = [Resting EXCEPT !.op = "GetStatus", !.pc = "range",
                                             !.todo = DOMAIN c.headers]]
    /\ UNCHANGED <<c, fatal, OtherVars>>

GoSetter(i, op, key, value) ==
    /\ ~fatal
    /\ g[i].op = "none"
    /\ g' = [g EXCEPT ![i] = [Resting EXCEPT !.op = op, !.pc = "write",
                                             !.key = key, !.value = value]]
    /\ UNCHANGED <<c, fatal, OtherVars>>

GoSetHeader(i) == GoSetter(i, "SetHeader", "X-Trace", "t1")

GoSetAPIKey(i) == GoSetter(i, "SetAPIKey", "", "key-2")

GoSetJWT(i) == GoSetter(i, "SetJWT", "", "jwt-2")

\* one iteration of "for key, value := range c.headers": the map yields an
\* entry not yet produced, in no fixed order
RangeHeaders(i) ==
    /\ ~fatal
    /\ g[i].pc = "range"
    /\ \E k \in g[i].todo :
           g' = [g EXCEPT ![i].header = HeaderSet(@, k, c.headers[k]),
                          ![i].todo = @ \ {k},
                          ![i].pc = IF g[i].todo = {k} THEN "jwt" ELSE "range"]
    /\ UNCHANGED <<c, fatal, OtherVars>>

\* if c.jwt != nil { req.Header.Set(HeaderAuthorization, ...) }
ReadJWT(i) ==
    /\ ~fatal
    /\ g[i].pc = "jwt"
    /\ g' = [g EXCEPT ![i].header =
                          IF c.jwt # NIL
                          THEN HeaderSet(@, HeaderAuthorization, "Bearer " \o Deref(c.jwt))
                          ELSE @,
                      ![i].pc = "apiKey"]
    /\ UNCHANGED <<c, fatal, OtherVars>>

\* if c.apiKey != nil { req.Header.Set(HeaderAPIKey, *c.apiKey) }
ReadAPIKey(i) ==
    /\ ~fatal
    /\ g[i].pc = "apiKey"
    /\ g' = [g EXCEPT ![i].header =
                          IF c.apiKey # NIL THEN HeaderSet(@, HeaderAPIKey, Deref(c.apiKey))
                          ELSE @,
                      ![i].pc = "do"]
    /\ UNCHANGED <<c, fatal, OtherVars>>

\* req.Header.Set("User-Agent", c.userAgent); c.httpClient.Do(req)
Do(i) ==
    /\ ~fatal
    /\ g[i].pc = "do"
    /\ g' = [g EXCEPT ![i].header = HeaderSet(@, "User-Agent", c.userAgent),
                      ![i].pc = "done"]
    /\ UNCHANGED <<c, fatal, OtherVars>>

\* c.headers[key] = value.  An entry created while another goroutine ranges
\* over the map may be produced by that loop or skipped.
WriteHeader(i) ==
    /\ ~fatal
    /\ g[i].pc = "write"
    /\ g[i].op = "SetHeader"
    /\ c' = SetHeader(c, g[i].key, g[i].value)
    /\ \E seen \in [Goroutines -> BOOLEAN] :
           g' = [j \in Goroutines |->
                    IF j = i THEN [g[j] EXCEPT !.pc = "done"]
                    ELSE IF /\ g[j].pc = "range"
                            /\ g[i].key \notin DOMAIN c.headers
                            /\ seen[j]
                         THEN [g[j] EXCEPT !.todo = @ \cup {g[i].key}]
                    ELSE g[j]]
    /\ UNCHANGED <<fatal, OtherVars>>

\* c.apiKey = &apiKey
WriteAPIKey(i) ==
    /\ ~fatal
    /\ g[i].pc = "write"
    /\ g[i].op = "SetAPIKey"
    /\ c' = SetAPIKey(c, g[i].value)
    /\ g' = [g EXCEPT ![i].pc = "done"]
    /\ UNCHANGED <<fatal, OtherVars>>

\* c.jwt = &jwt
WriteJWT(i) ==
    /\ ~fatal
    /\ g[i].pc = "write"
    /\ g[i].op = "SetJWT"
    /\ c' = SetJWT(c, g[i].value)
    /\ g' = [g EXCEPT ![i].pc = "done"]
    /\ UNCHANGED <<fatal, OtherVars>>

\* the call returns
GoReturn(i) ==
    /\ ~fatal
    /\ g[i].pc = "done"
    /\ g' = [g EXCEPT ![i] = Resting]
    /\ UNCHANGED <<c, fatal, OtherVars>>

\* The Go runtime may notice a map that is written while it is read or
\* written by another goroutine, and then ends the program with "fatal
\* error: concurrent map iteration and map write" or "concurrent map writes".
Throw ==
    /\ ~fatal
    /\ \E i, j \in Goroutines : Conflict(i, j) /\ Access(i).field = "headers"
    /\ fatal' = TRUE
    /\ UNCHANGED <<c, g, OtherVars>>

GoroutinesIdle ==
    /\ g = [i \in Goroutines |-> Resting]
    /\ fatal = FALSE

---------------------------------------------------------------------------
(* ChainhookOptionsBuilder *)

\* The builder holds one pointer, opts, to the ChainhookOptions object it
\* allocated; the model keeps that object in the opts field.
NewChainhookOptionsBuilder == [opts |-> NewChainhookOptions]

EnableOnRegistration(ob0, enable) ==
    [ob0 EXCEPT !.opts.EnableOnRegistration = BoolPtr(enable)]

ExpireAfterEvaluations(ob0, count) ==
    [ob0 EXCEPT !.opts.ExpireAfterEvaluations = Uint64Ptr(count)]

ExpireAfterOccurrencesIntoEvaluations(ob0, count) ==
    [ob0 EXCEPT !.opts.ExpireAfterEvaluations = Uint64Ptr(count)]

ExpireAfterOccurrences(ob0, count) ==
    [ob0 EXCEPT !.opts.ExpireAfterOccurrences = Uint64Ptr(count)]

DecodeClarityValues(ob0, decode) ==
    [ob0 EXCEPT !.opts.DecodeClarityValues = BoolPtr(decode)]

IncludeContractABI(ob0, include) ==
    [ob0 EXCEPT !.opts.IncludeContractABI = BoolPtr(include)]

IncludeContractSourceCode(ob0, include) ==
    [ob0 EXCEPT !.opts.IncludeContractSourceCode = BoolPtr(include)]

IncludePostConditions(ob0, include) ==
    [ob0 EXCEPT !.opts.IncludePostConditions = BoolPtr(include)]

IncludeRawTransactions(ob0, include) ==
    [ob0 EXCEPT !.opts.IncludeRawTransactions = BoolPtr(include)]

IncludeBlockSignatures(ob0, include) ==
    [ob0 EXCEPT !.opts.IncludeBlockSignatures = BoolPtr(include)]

IncludeBlockMetadata(ob0, include) ==
    [ob0 EXCEPT !.opts.IncludeBlockMetadata = BoolPtr(include)]

\* ChainhookOptionsBuilder.Build: return b.opts
BuildOptions(ob0) == Ptr(ob0.opts)

\* A setter call: the caller's record of the call is the argument it passed
\* for that field; what Build returned before is no longer looked at.
OptionSetterCall(field, value, nob) ==
    /\ ob' = nob
    /\ calls' = [calls EXCEPT ![field] = Ptr(value)]
    /\ built' = NIL
    /\ UNCHANGED <<bvars, cvars, evars, gvars>>

CallEnableOnRegistration ==
    \E v \in BOOLEAN :
        OptionSetterCall("EnableOnRegistration", v, EnableOnRegistration(ob, v))
CallExpireAfterEvaluations ==
    \E n \in Counts :
        OptionSetterCall("ExpireAfterEvaluations", n, ExpireAfterEvaluations(ob, n))
CallExpireAfterOccurrences ==
    \E n \in Counts :
        OptionSetterCall("ExpireAfterOccurrences", n, ExpireAfterOccurrences(ob, n))
CallDecodeClarityValues ==
    \E v \in BOOLEAN :
        OptionSetterCall("DecodeClarityValues", v, DecodeClarityValues(ob, v))
CallIncludeContractABI ==
    \E v \in BOOLEAN :
        OptionSetterCall("IncludeContractABI", v, IncludeContractABI(ob, v))
CallIncludeContractSourceCode ==
    \E v \in BOOLEAN :
        OptionSetterCall("IncludeContractSourceCode", v, IncludeContractSourceCode(ob, v))
CallIncludePostConditions ==
    \E v \in BOOLEAN :
        OptionSetterCall("IncludePostConditions", v, IncludePostConditions(ob, v))
CallIncludeRawTransactions ==
    \E v \in BOOLEAN :
        OptionSetterCall("IncludeRawTransactions", v, IncludeRawTransactions(ob, v))
CallIncludeBlockSignatures ==
    \E v \in BOOLEAN :
        OptionSetterCall("IncludeBlockSignatures", v, IncludeBlockSignatures(ob, v))
CallIncludeBlockMetadata ==
    \E v \in BOOLEAN :
        OptionSetterCall("IncludeBlockMetadata", v, IncludeBlockMetadata(ob, v))

CallBuildOptions ==
    /\ built = NIL
    /\ built' = BuildOptions(ob)
    /\ UNCHANGED <<ob, calls, bvars, cvars, evars, gvars>>

OptionsIdle ==
    /\ ob = NewChainhookOptionsBuilder
    /\ calls = [f \in OptionFields |-> NIL]
    /\ built = NIL

---------------------------------------------------------------------------
(* Specifications *)

vars == <<b, heap, ret, optionCalls, held, c, out, err, class, g, fatal, ob, calls, built>>

\* the parts a specification leaves alone start, and stay, like this
BuilderIdle ==
    /\ b = NewChainhookBuilder("", NetworkMainnet)
    /\ heap = [own |-> NewChainhookOptions, caller |-> CallerOptions]
    /\ ret = Fluent
    /\ optionCalls = 0
    /\ held = NIL

ClientIdle ==
    /\ c = NewClientWithConfig(NIL)
    /\ out = Idle

ErrorIdle ==
    /\ err = NIL
    /\ class = Unasked

BuilderInit ==
    /\ \E name \in Names, network \in Networks : b = NewChainhookBuilder(name, network)
    /\ heap = [own |-> NewChainhookOptions, caller |-> CallerOptions]
    /\ ret = Fluent
    /\ optionCalls = 0
    /\ held = NIL
    /\ ClientIdle
    /\ ErrorIdle
    /\ GoroutinesIdle
    /\ OptionsIdle

BuilderNext ==
    \/ CallWithName
    \/ CallWithNetwork
    \/ CallWithWebhookURL
    \/ CallAddFilter
    \/ CallAddFTTransfer
    \/ CallAddFTMint
    \/ CallAddFTBurn
    \/ CallAddNFTTransfer
    \/ CallAddNFTMint
    \/ CallAddNFTBurn
    \/ CallAddSTXTransfer
    \/ CallAddSTXMint
    \/ CallAddSTXBurn
    \/ CallAddContractDeploy
    \/ CallAddContractCall
    \/ CallAddContractLog
    \/ CallAddBalanceChange
    \/ CallAddCoinbase
    \/ CallAddTenureChange
    \/ CallWithOptions
    \/ CallWithEnableOnRegistration
    \/ CallWithExpireAfterEvaluations
    \/ CallWithExpireAfterOccurrences
    \/ CallWithDecodeClarityValues
    \/ CallWithIncludeContractABI
    \/ CallWithIncludeContractSourceCode
    \/ CallWithIncludePostConditions
    \/ CallWithIncludeRawTransactions
    \/ CallWithIncludeBlockSignatures
    \/ CallWithIncludeBlockMetadata
    \/ CallBuild

BuilderSpec == BuilderInit /\ [][BuilderNext]_vars

\* Builders whose err slot holds an error.  No method of the builder assigns
\* the slot, so such a builder is made by code of the package itself; the
\* builders drawn here are fresh or partly filled, with the slot nil or set.
StickyBuilders ==
    LET fresh == {NewChainhookBuilder(name, network) : name \in Names, network \in Networks}
        url == {WithWebhookURL(bb, "https://example.com/webhook") : bb \in fresh}
        full == {AddTenureChange(bb) : bb \in url}
    IN {[bb EXCEPT !.err = e] :
            bb \in fresh \cup url \cup full, e \in {NIL, Ptr(RecordedError)}}

StickyInit ==
    /\ b \in StickyBuilders
    /\ heap = [own |-> NewChainhookOptions, caller |-> CallerOptions]
    /\ ret = Fluent
    /\ optionCalls = 0
    /\ held = NIL
    /\ ClientIdle
    /\ ErrorIdle
    /\ GoroutinesIdle
    /\ OptionsIdle

StickySpec == StickyInit /\ [][BuilderNext]_vars

\* one Client, constructed from any of the configurations
ClientInit ==
    /\ c \in {NewClientWithConfig(cfg) : cfg \in Configs}
    /\ out = Idle
    /\ BuilderIdle
    /\ ErrorIdle
    /\ GoroutinesIdle
    /\ OptionsIdle

ClientNext ==
    \/ CallRegisterChainhook
    \/ CallUpdateChainhook
    \/ CallGetChainhooks
    \/ CallGetChainhook
    \/ CallEnableChainhook
    \/ CallBulkEnableChainhooks
    \/ CallDeleteChainhook
    \/ CallRotateConsumerSecret
    \/ CallGetConsumerSecret
    \/ CallDeleteConsumerSecret
    \/ CallEvaluateChainhook
    \/ CallGetStatus
    \/ CallSetAPIKey
    \/ CallSetJWT
    \/ CallSetHeader
    \/ Return

ClientSpec == ClientInit /\ [][ClientNext]_vars

\* a client without and one with a configured API key and user agent, on
\* which headers and the bearer token are set, in any order, and the status
\* is asked for
HeaderConfigs ==
    {NIL,
     Ptr(ClientConfig("https://api.example.com/", StringPtr("key-1"), NIL, NIL, 0,
                      "custom-agent/2"))}

HeaderInit ==
    /\ c \in {NewClientWithConfig(cfg) : cfg \in HeaderConfigs}
    /\ out = Idle
    /\ BuilderIdle
    /\ ErrorIdle
    /\ GoroutinesIdle
    /\ OptionsIdle

HeaderNext ==
    \/ CallGetStatus
    \/ CallSetJWT
    \/ CallSetNamedHeader
    \/ Return

HeaderSpec == HeaderInit /\ [][HeaderNext]_vars

\* one error value, of any kind
ErrorInit ==
    /\ err \in Errors
    /\ class = Unasked
    /\ BuilderIdle
    /\ ClientIdle
    /\ GoroutinesIdle
    /\ OptionsIdle

ErrorNext ==
    \/ CallIsHttpError
    \/ CallAsHttpError
    \/ CallGetHttpStatusCode
    \/ CallIsNotFound
    \/ CallIsUnauthorized
    \/ CallIsForbidden
    \/ CallIsServerError
    \/ CallIsClientError

ErrorSpec == ErrorInit /\ [][ErrorNext]_vars

\* one Client with an API key, shared by the goroutines
ConcurrentInit ==
    /\ c = NewClientWithConfig(Ptr(ClientConfig("", StringPtr("key-1"), NIL, NIL, 0, "")))
    /\ out = Idle
    /\ GoroutinesIdle
    /\ BuilderIdle
    /\ ErrorIdle
    /\ OptionsIdle

ConcurrentNext ==
    \/ \E i \in Goroutines : GoRequest(i)
    \/ \E i \in Goroutines : GoSetHeader(i)
    \/ \E i \in Goroutines : GoSetAPIKey(i)
    \/ \E i \in Goroutines : GoSetJWT(i)
    \/ \E i \in Goroutines : RangeHeaders(i)
    \/ \E i \in Goroutines : ReadJWT(i)
    \/ \E i \in Goroutines : ReadAPIKey(i)
    \/ \E i \in Goroutines : Do(i)
    \/ \E i \in Goroutines : WriteHeader(i)
    \/ \E i \in Goroutines : WriteAPIKey(i)
    \/ \E i \in Goroutines : WriteJWT(i)
    \/ \E i \in Goroutines : GoReturn(i)
    \/ Throw

ConcurrentSpec == ConcurrentInit /\ [][ConcurrentNext]_vars

\* one ChainhookOptionsBuilder, made by NewChainhookOptionsBuilder
OptionsInit ==
    /\ OptionsIdle
    /\ BuilderIdle
    /\ ClientIdle
    /\ ErrorIdle
    /\ GoroutinesIdle

OptionsNext ==
    \/ CallEnableOnRegistration
    \/ CallExpireAfterEvaluations
    \/ CallExpireAfterOccurrences
    \/ CallDecodeClarityValues
    \/ CallIncludeContractABI
    \/ CallIncludeContractSourceCode
    \/ CallIncludePostConditions
    \/ CallIncludeRawTransactions
    \/ CallIncludeBlockSignatures
    \/ CallIncludeBlockMetadata
    \/ CallBuildOptions

OptionsSpec == OptionsInit /\ [][OptionsNext]_vars

\* a builder with a name and a webhook URL, to which filters are added
FilterInit ==
    /\ b = WithWebhookURL(NewChainhookBuilder("hook", NetworkMainnet),
                          "https://example.com/webhook")
    /\ heap = [own |-> NewChainhookOptions, caller |-> CallerOptions]
    /\ ret = Fluent
    /\ optionCalls = 0
    /\ held = NIL
    /\ ClientIdle
    /\ ErrorIdle
    /\ GoroutinesIdle
    /\ OptionsIdle

FilterNext ==
    \/ CallAdd
    \/ CallBuild

FilterSpec == FilterInit /\ [][FilterNext]_vars

\* a new builder on which option setters are called
SetterInit ==
    /\ b = NewChainhookBuilder("hook", NetworkMainnet)
    /\ heap = [own |-> NewChainhookOptions, caller |-> CallerOptions]
    /\ ret = Fluent
    /\ optionCalls = 0
    /\ held = NIL
    /\ ClientIdle
    /\ ErrorIdle
    /\ GoroutinesIdle
    /\ OptionsIdle

SetterNext == CallOption

SetterSpec == SetterInit /\ [][SetterNext]_vars

\* a new builder on which option setters and WithOptions are called
BagNext ==
    \/ CallOption
    \/ CallSetOptions

BagSpec == SetterInit /\ [][BagNext]_vars

\* a builder with a name and a webhook URL that is built more than once,
\* the caller keeping the definition it got
KeptNext ==
    \/ CallWith
    \/ CallKeptAdd
    \/ CallKeptOption
    \/ CallBuildKept

KeptSpec == FilterInit /\ [][KeptNext]_vars

---------------------------------------------------------------------------
(* Claims about ChainhookBuilder *)

IsValidationError(e, field) ==
    /\ e # NIL
    /\ Deref(e).kind = "ValidationError"
    /\ Deref(e).Field = field

\* C1: on a builder with no recorded error, Build fails on field "name" when
\* the name is empty, whatever else is missing; otherwise on "action.url" when
\* the action URL is empty; otherwise on "filters" when no filter was added;
\* and it succeeds exactly when none of the three is missing.
BuildValidationOrder ==
    [][(ret'.op = "Build" /\ b.err = NIL) =>
          LET noName == b.definition.Name = ""
              noURL == b.definition.Action.URL = ""
              noFilter == Len(b.filters) = 0
          IN /\ noName => ret'.def = NIL /\ IsValidationError(ret'.err, "name")
             /\ (~noName /\ noURL) =>
                    ret'.def = NIL /\ IsValidationError(ret'.err, "action.url")
             /\ (~noName /\ ~noURL /\ noFilter) =>
                    ret'.def = NIL /\ IsValidationError(ret'.err, "filters")
             /\ (ret'.err = NIL) <=> (~noName /\ ~noURL /\ ~noFilter)
             /\ (ret'.err = NIL) <=> (ret'.def # NIL)]_bvars

\* Build has failed on "name" with the URL and the filters missing as well
BuildFailedOnNameFirst ==
    /\ ret.op = "Build"
    /\ b.err = NIL
    /\ b.definition.Name = ""
    /\ b.definition.Action.URL = ""
    /\ Len(b.filters) = 0
    /\ IsValidationError(ret.err, "name")

\* C2: Build returns either no definition and a validation error, or no
\* error and a definition with a non-empty name, a non-empty action URL and
\* at least one entry in Filters.Events.
BuildReturnsCompleteOrNothing ==
    ret.op = "Build" =>
        \/ /\ ret.def = NIL
           /\ ret.err # NIL
           /\ Deref(ret.err).kind = "ValidationError"
        \/ /\ ret.def # NIL
           /\ ret.err = NIL
           /\ Deref(ret.def).Name # ""
           /\ Deref(ret.def).Action.URL # ""
           /\ Len(Deref(ret.def).Filters.Events) >= 1

\* Build has returned a definition
BuildSucceeded ==
    /\ ret.op = "Build"
    /\ ret.def # NIL
    /\ ret.err = NIL

\* C3: with an error recorded, no call changes the definition, the options
\* or the filter list, and Build returns the recorded error with no
\* definition.
StickyErrorShortCircuits ==
    [][b.err # NIL =>
          /\ b' = b
          /\ heap' = heap
          /\ ret'.op = "Build" => (ret'.def = NIL /\ ret'.err = b.err)]_bvars

\* Build has returned the recorded error of a builder that has a name and an
\* action URL but no filter, after an option setter was called on it
BuildReturnedRecordedError ==
    /\ b.err = Ptr(RecordedError)
    /\ ret.op = "Build"
    /\ ret.def = NIL
    /\ ret.err = Ptr(RecordedError)
    /\ b.definition.Name # ""
    /\ b.definition.Action.URL # ""
    /\ Len(b.filters) = 0
    /\ optionCalls = 1
    /\ b.definition.Options = NIL

---------------------------------------------------------------------------
(* Claims about the Client's pre-checks and round trip *)

\* the call in progress obtained a response
Responded == out.op # "none" /\ out.resp # NIL

\* the local result variable of the operation is as it was declared
DestUntouched ==
    out.dest = NIL \/ out.dest = Ptr(ZeroResult(Deref(out.dest).type))

\* the fields whose client-side pre-check the arguments of the call fail
FailedPreChecks ==
    (IF /\ out.op \in {"GetChainhook", "UpdateChainhook", "EnableChainhook",
                       "DeleteChainhook", "EvaluateChainhook"}
        /\ out.args.uuid = ""
     THEN {"uuid"} ELSE {})
    \cup (IF /\ out.op \in {"RegisterChainhook", "UpdateChainhook"}
             /\ out.args.definition = NIL
          THEN {"definition"} ELSE {})
    \cup (IF /\ out.op = "BulkEnableChainhooks"
             /\ \/ out.args.request = NIL
                \/ /\ Len(Deref(out.args.request).UUIDs) = 0
                   /\ Deref(out.args.request).WebhookURL = NIL
                   /\ Len(Deref(out.args.request).Statuses) = 0
          THEN {"request"} ELSE {})

\* C4: a call whose arguments fail a client-side pre-check (empty uuid, nil
\* definition, nil request or request without selector) returns a
\* ValidationError naming a failed field, returns no result, and hands no
\* request to the transport.
PreCheckFailsWithoutRequest ==
    FailedPreChecks # {} =>
        /\ out.err # NIL
        /\ Deref(out.err).kind = "ValidationError"
        /\ Deref(out.err).Field \in FailedPreChecks
        /\ out.result = NIL
        /\ out.reqs = <<>>
        /\ out.resp = NIL

UpdateFailedOnUUIDFirst ==
    /\ out.op = "UpdateChainhook"
    /\ out.args.uuid = ""
    /\ out.args.definition = NIL
    /\ out.args.ctx = "live"
    /\ IsValidationError(out.err, "uuid")
    /\ out.reqs = <<>>

\* C5: for every response with status >= 400 the call returns an HttpError
\* with that status code, the method and URL of the request sent and the
\* headers of the response; nothing is decoded and the destination is left
\* as it was, whatever the body.
ErrorStatusGivesHttpError ==
    (Responded /\ Deref(out.resp).StatusCode >= 400) =>
        /\ IsHttpError(out.err)
        /\ Deref(out.err).StatusCode = Deref(out.resp).StatusCode
        /\ Len(out.reqs) = 1
        /\ Deref(out.err).Method = out.reqs[1].Method
        /\ Deref(out.err).URL = out.reqs[1].URL
        /\ Deref(out.err).Headers = Deref(out.resp).Header
        /\ out.decodes = 0
        /\ DestUntouched
        /\ out.result = NIL

NotFoundWithDecodableBody ==
    /\ out.op = "GetChainhook"
    /\ Responded
    /\ Deref(out.resp).StatusCode = 404
    /\ Deref(out.resp).body = BodyResult
    /\ Deref(out.resp).Header # <<>>
    /\ out.dest = Ptr(ZeroResult("Chainhook"))
    /\ IsHttpError(out.err)
    /\ Deref(out.err).Method = MethodGET
    /\ Deref(out.err).URL = c.baseURL \o "/chainhooks/me/u1"

\* C6: for every response with status 204, whatever its body and whether or
\* not the operation has a destination, the call returns no error, decodes
\* nothing and leaves the destination as it was.
NoContentLeavesDestination ==
    (Responded /\ Deref(out.resp).StatusCode = StatusNoContent) =>
        /\ out.err = NIL
        /\ out.decodes = 0
        /\ DestUntouched

NoContentWithDecodableBody ==
    /\ out.op = "RotateConsumerSecret"
    /\ Responded
    /\ Deref(out.resp).StatusCode = StatusNoContent
    /\ Deref(out.resp).body = BodyResult
    /\ out.err = NIL
    /\ out.result = Ptr(ZeroResult("ConsumerSecretResponse"))

\* the message the body of an error response spells: the string under
\* "message" of a JSON object, else the string under "error", else the text
MessageOf(body) ==
    IF body.text = "" THEN ""
    ELSE IF /\ body.json.kind = "object"
            /\ "message" \in DOMAIN body.json.members
            /\ body.json.members["message"].t = "string"
    THEN body.json.members["message"].v
    ELSE IF /\ body.json.kind = "object"
            /\ "error" \in DOMAIN body.json.members
            /\ body.json.members["error"].t = "string"
    THEN body.json.members["error"].v
    ELSE body.text

\* C7: the message (Body) of the HttpError built from a >= 400 response is
\* the string under "message" when the body is a JSON object holding one,
\* else the string under "error", else the raw body text, and empty for an
\* empty body; 404 with {"message":"not found"} gives "not found" with
\* IsNotFound and IsHttpError true, and 500 with a body that is no JSON
\* gives the raw body.
HttpErrorMessageFromBody ==
    (Responded /\ Deref(out.resp).StatusCode >= 400) =>
        LET body == Deref(out.resp).body
        IN /\ IsHttpError(out.err)
           /\ Deref(out.err).Body = MessageOf(body)
           /\ Deref(out.err).RawBody = body.text
           /\ (Deref(out.resp).StatusCode = 404 /\ body = BodyMessage) =>
                  /\ Deref(out.err).Body = "not found"
                  /\ IsNotFound(out.err)
           /\ (Deref(out.resp).StatusCode = 500 /\ body = BodyText) =>
                  Deref(out.err).Body = "upstream timed out"

ErrorKeyUsedWhenMessageIsNoString ==
    /\ Responded
    /\ Deref(out.resp).StatusCode = 500
    /\ Deref(out.resp).body = BodyErrorOnly
    /\ IsHttpError(out.err)
    /\ Deref(out.err).Body = "missing"

---------------------------------------------------------------------------
(* Claims about the errors *)

\* the five status predicates answer as the status ranges say
InRange(e, lo, hi) ==
    /\ e # NIL
    /\ Deref(e).kind = "HttpError"
    /\ Deref(e).StatusCode >= lo
    /\ Deref(e).StatusCode <= hi

\* C8: IsNotFound holds exactly for an HttpError with status 404,
\* IsUnauthorized exactly for 401, IsForbidden exactly for 403,
\* IsClientError exactly for 400..499 and IsServerError exactly for
\* 500..599; all five are false for nil and for any other error.
StatusPredicatesMatchRanges ==
    /\ class.helper = "IsNotFound" => (class.answer <=> InRange(err, 404, 404))
    /\ class.helper = "IsUnauthorized" => (class.answer <=> InRange(err, 401, 401))
    /\ class.helper = "IsForbidden" => (class.answer <=> InRange(err, 403, 403))
    /\ class.helper = "IsClientError" => (class.answer <=> InRange(err, 400, 499))
    /\ class.helper = "IsServerError" => (class.answer <=> InRange(err, 500, 599))

ServerErrorAboveRange ==
    /\ class.helper = "IsServerError"
    /\ class.answer = TRUE
    /\ IsHttpError(err)
    /\ Deref(err).StatusCode = 600

\* C9: every error a public operation returns is an HttpError, a
\* ValidationError or a ConfigError; a failure to encode the body, to make
\* the request or to reach the server is returned as an HttpError that
\* carries the underlying cause.
ErrorsAreOfThreeKinds ==
    (out.op # "none" /\ out.err # NIL) =>
        /\ Deref(out.err).kind \in {"HttpError", "ValidationError", "ConfigError"}
        /\ (out.resp = NIL /\ Deref(out.err).kind # "ValidationError") =>
               /\ IsHttpError(out.err)
               /\ Deref(out.err).Err # NIL

NetworkFailureReturnedWrapped ==
    /\ out.op = "GetStatus"
    /\ out.args.ctx = "live"
    /\ Len(out.reqs) = 1
    /\ out.resp = NIL
    /\ out.err = Ptr(Errorf("failed to perform request",
                            LibraryError("connection refused")))
    /\ ~IsHttpError(out.err)

\* C10: when the status is below 400 and not 204, the body was read and is
\* not empty, the operation has a destination and the body does not decode
\* into it, the call returns an error that is no HttpError: IsHttpError,
\* IsClientError and IsServerError are all false for it.
DecodeFailureIsNoHttpError ==
    (/\ Responded
     /\ Deref(out.resp).StatusCode < 400
     /\ Deref(out.resp).StatusCode # StatusNoContent
     /\ ~Deref(out.resp).readErr
     /\ Deref(out.resp).body.text # ""
     /\ out.dest # NIL
     /\ ~Unmarshal(Deref(out.resp).body, ZeroResult(Deref(out.dest).type)).ok) =>
        /\ out.err # NIL
        /\ ~IsHttpError(out.err)
        /\ ~IsClientError(out.err)
        /\ ~IsServerError(out.err)
        /\ out.result = NIL

DecodeFailedOnSuccessStatus ==
    /\ out.op = "GetChainhook"
    /\ Responded
    /\ Deref(out.resp).StatusCode = 200
    /\ Deref(out.resp).body = BodyErrorOnly
    /\ out.decodes = 1
    /\ out.err = Ptr(Errorf("failed to unmarshal response body",
                            LibraryError("json: cannot unmarshal")))

---------------------------------------------------------------------------
(* Claims about what a call sends *)

\* the error e is the cause itself or wraps it
Carries(e, cause) ==
    /\ e # NIL
    /\ \/ Deref(e) = cause
       \/ /\ "Err" \in DOMAIN Deref(e)
          /\ Deref(e).Err = Ptr(cause)

Cancellation == LibraryError("context canceled")

CalledCancelled == out.op # "none" /\ out.args.ctx = "cancelled"

\* C11 (as claimed): every call made with an already-cancelled context
\* returns an error carrying the cancellation, never a ValidationError.
CancelledContextGivesCancellation ==
    CalledCancelled =>
        /\ Carries(out.err, Cancellation)
        /\ Deref(out.err).kind # "ValidationError"

\* C11: a call made with an already-cancelled context obtains no response
\* and decodes nothing.  If a pre-check fails it returns the
\* ValidationError; if the body cannot be encoded or the request cannot be
\* made it returns that failure and sends nothing; otherwise it hands one
\* request to the transport and returns an error wrapping the cancellation.
CancelledContextAfterPreChecks ==
    CalledCancelled =>
        /\ out.err # NIL
        /\ out.result = NIL
        /\ out.resp = NIL
        /\ out.decodes = 0
        /\ FailedPreChecks # {} => Deref(out.err).kind = "ValidationError"
        /\ FailedPreChecks = {} =>
               \/ /\ Len(out.reqs) = 1
                  /\ out.err = Ptr(Errorf("failed to perform request", Cancellation))
               \/ /\ out.reqs = <<>>
                  /\ Deref(out.err).kind = "wrapError"
                  /\ Deref(out.err).msg \in {"failed to marshal request body",
                                             "failed to create request"}

CancelledCallReturnedCancellation ==
    /\ out.op = "GetChainhook"
    /\ out.args.ctx = "cancelled"
    /\ out.args.uuid = "u1"
    /\ Len(out.reqs) = 1
    /\ Carries(out.err, Cancellation)

\* a GetChainhooks call with pagination options that sent its request
PaginatedCall ==
    /\ out.op = "GetChainhooks"
    /\ out.args.opts # NIL
    /\ Len(out.reqs) = 1

QueryOf(u) == SubSeq(u, Len(c.baseURL) + Len(EndpointChainhooks) + 2, Len(u))

\* C12 (as claimed): pagination options are written into the query string
\* as offset=<Offset>&limit=<Limit>, offset first
QueryHasOffsetFirst ==
    PaginatedCall =>
        QueryOf(out.reqs[1].URL) =
            "offset=" \o Decimal(Deref(out.args.opts).Offset)
                \o "&limit=" \o Decimal(Deref(out.args.opts).Limit)

\* C12: pagination options are written into the query string of
\* GET /chainhooks/me as limit=<Limit>&offset=<Offset>: both parameters in
\* decimal, sorted by key, so limit comes first; without options the path has
\* no query string
QueryHasLimitFirst ==
    /\ PaginatedCall =>
           /\ out.reqs[1].Method = MethodGET
           /\ out.reqs[1].URL =
                  c.baseURL \o EndpointChainhooks \o "?"
                      \o "limit=" \o Decimal(Deref(out.args.opts).Limit)
                      \o "&offset=" \o Decimal(Deref(out.args.opts).Offset)
    /\ (out.op = "GetChainhooks" /\ out.args.opts = NIL /\ Len(out.reqs) = 1) =>
           out.reqs[1].URL = c.baseURL \o EndpointChainhooks

PaginatedFromZeroByTen ==
    /\ PaginatedCall
    /\ out.args.opts = NewPaginationOptions(0, 10)
    /\ QueryOf(out.reqs[1].URL) = "limit=10&offset=0"

\* the request of the call can be constructed: its body can be encoded and
\* its URL can be parsed
RequestBuildable ==
    /\ ~ParseURLFails(c.baseURL)
    /\ ~ /\ out.op \in {"RegisterChainhook", "UpdateChainhook"}
          /\ out.args.definition # NIL
          /\ ~Marshal(Deref(Body("ChainhookDefinition", Deref(out.args.definition)))).ok

\* C13 (as claimed): a call hands at most one request to the transport, and
\* exactly one whenever its pre-checks pass
OneRequestWhenPreChecksPass ==
    out.op # "none" =>
        /\ Len(out.reqs) <= 1
        /\ FailedPreChecks = {} => Len(out.reqs) = 1

\* C13: a call hands at most one request to the transport, whatever the
\* outcome (transport failure, status >= 400, decode failure), and exactly
\* one when its pre-checks pass and its request can be constructed
AtMostOneRequest ==
    out.op # "none" =>
        /\ Len(out.reqs) <= 1
        /\ (FailedPreChecks = {} /\ RequestBuildable) => Len(out.reqs) = 1

TransportFailureNotRetried ==
    /\ out.op = "GetStatus"
    /\ out.args.ctx = "live"
    /\ out.err = Ptr(Errorf("failed to perform request", LibraryError("connection refused")))
    /\ Len(out.reqs) = 1

HasPrefix(s, prefix) ==
    /\ Len(s) >= Len(prefix)
    /\ SubSeq(s, 1, Len(prefix)) = prefix

\* the request a call sent has the header called name with this value
Sends(name, value) ==
    /\ CanonicalHeaderKey(name) \in DOMAIN out.reqs[1].Header
    /\ out.reqs[1].Header[CanonicalHeaderKey(name)] = value

\* the values the caller gave with SetHeader to the header called name
CustomValues(name) ==
    {c.headers[k] : k \in {x \in DOMAIN c.headers :
                              CanonicalHeaderKey(x) = CanonicalHeaderKey(name)}}

\* C14 (as claimed): a request carries "Authorization: Bearer <token>" if
\* and only if a bearer token is configured, and x-api-key with the key if
\* and only if an API key is configured
CredentialHeadersIffConfigured ==
    Len(out.reqs) = 1 =>
        /\ c.jwt # NIL => Sends(HeaderAuthorization, "Bearer " \o Deref(c.jwt))
        /\ c.jwt = NIL =>
               ~ /\ CanonicalHeaderKey(HeaderAuthorization) \in DOMAIN out.reqs[1].Header
                 /\ HasPrefix(out.reqs[1].Header[CanonicalHeaderKey(HeaderAuthorization)],
                              "Bearer ")
        /\ c.apiKey # NIL => Sends(HeaderAPIKey, Deref(c.apiKey))
        /\ c.apiKey = NIL =>
               CanonicalHeaderKey(HeaderAPIKey) \notin DOMAIN out.reqs[1].Header

\* C14: a request carries "Authorization: Bearer <token>" whenever a bearer
\* token is configured and x-api-key with the key whenever an API key is
\* configured, both when both are, whatever headers were set with SetHeader;
\* for a credential that is not configured the client adds nothing, and the
\* header is sent only as the caller set it with SetHeader
CredentialHeadersWhenConfigured ==
    Len(out.reqs) = 1 =>
        /\ c.jwt # NIL => Sends(HeaderAuthorization, "Bearer " \o Deref(c.jwt))
        /\ c.jwt = NIL =>
               IF CustomValues(HeaderAuthorization) = {}
               THEN CanonicalHeaderKey(HeaderAuthorization) \notin DOMAIN out.reqs[1].Header
               ELSE \E v \in CustomValues(HeaderAuthorization) : Sends(HeaderAuthorization, v)
        /\ c.apiKey # NIL => Sends(HeaderAPIKey, Deref(c.apiKey))
        /\ c.apiKey = NIL =>
               IF CustomValues(HeaderAPIKey) = {}
               THEN CanonicalHeaderKey(HeaderAPIKey) \notin DOMAIN out.reqs[1].Header
               ELSE \E v \in CustomValues(HeaderAPIKey) : Sends(HeaderAPIKey, v)

BothCredentialsSent ==
    /\ Len(out.reqs) = 1
    /\ c.jwt = StringPtr("jwt-2")
    /\ c.apiKey = StringPtr("key-1")
    /\ "Bearer custom" \in CustomValues(HeaderAuthorization)
    /\ Sends(HeaderAuthorization, "Bearer jwt-2")
    /\ Sends(HeaderAPIKey, "key-1")

---------------------------------------------------------------------------
(* Claims about goroutines sharing a Client *)

\* C15: a Client is safe for concurrent use: in no interleaving of calls
\* made on it by several goroutines (API operations and the setters
\* SetHeader, SetAPIKey, SetJWT) is a field of the client, the header map
\* included, written by one goroutine while another reads or writes it.
NoDataRace == ~DataRace

\* a goroutine is in the loop over c.headers of Client.request while
\* another is about to write the map in SetHeader
HeaderMapWrittenDuringIteration ==
    /\ g["A"].op = "GetStatus" /\ g["A"].pc = "range"
    /\ g["A"].todo # {} /\ g["A"].todo # DOMAIN c.headers
    /\ g["B"].op = "SetHeader" /\ g["B"].pc = "write"

---------------------------------------------------------------------------
(* Claims about the ChainhookOptionsBuilder *)

\* C16: whatever setters were called on a ChainhookOptionsBuilder, Build
\* returns (it has no error result) an options object in which exactly the
\* fields whose setter was called are non-nil, each pointing at the argument
\* of the last call of its setter (false and 0 included), and every other
\* field is nil.
OptionsBuildKeepsWhatWasSet ==
    built # NIL =>
        \A f \in OptionFields : Deref(built)[f] = calls[f]

BuiltOptionsWithFalseAndZero ==
    /\ built # NIL
    /\ Deref(built).EnableOnRegistration = BoolPtr(FALSE)
    /\ Deref(built).ExpireAfterOccurrences = Uint64Ptr(0)
    /\ Deref(built).IncludeBlockMetadata = BoolPtr(TRUE)
    /\ \A f \in OptionFields \ {"EnableOnRegistration", "ExpireAfterOccurrences",
                                  "IncludeBlockMetadata"} : Deref(built)[f] = NIL

---------------------------------------------------------------------------
(* Claims about BulkEnableChainhooks, the base URL and the operation table *)

BulkCall ==
    /\ out.op = "BulkEnableChainhooks"
    /\ out.args.request # NIL

\* the selectors of a bulk request that are present
Selectors(r) ==
    (IF Len(r.UUIDs) > 0 THEN {"uuids"} ELSE {})
        \cup (IF r.WebhookURL # NIL THEN {"webhook_url"} ELSE {})
        \cup (IF Len(r.Statuses) > 0 THEN {"statuses"} ELSE {})

\* without a selector the call fails validation on "request"; a request
\* that is sent carries enabled and every selector as given
BulkCheckedAndSentUnchanged ==
    LET r == Deref(out.args.request)
        sent == Deref(out.reqs[1].Body)
    IN /\ Selectors(r) = {} =>
              /\ out.err # NIL
              /\ Deref(out.err).kind = "ValidationError"
              /\ Deref(out.err).Field = "request"
              /\ out.result = NIL
       /\ Len(out.reqs) = 1 =>
              /\ DOMAIN sent = {"enabled"} \cup Selectors(r)
              /\ sent.enabled = r.Enabled
              /\ "uuids" \in Selectors(r) => sent.uuids = r.UUIDs
              /\ "webhook_url" \in Selectors(r) => sent.webhook_url = Deref(r.WebhookURL)
              /\ "statuses" \in Selectors(r) => sent.statuses = r.Statuses

\* C17 (as claimed): BulkEnableChainhooks with a non-nil request issues the
\* HTTP call if and only if at least one selector is present
BulkSentIffSelector ==
    BulkCall =>
        /\ Len(out.reqs) = 1 <=> Selectors(Deref(out.args.request)) # {}
        /\ BulkCheckedAndSentUnchanged

\* C17: BulkEnableChainhooks with a non-nil request issues the HTTP call if
\* and only if at least one selector is present (uuids non-empty, webhookURL
\* non-nil, statuses non-empty) and the request URL can be parsed; without a
\* selector it returns a ValidationError on "request" and issues nothing;
\* requests with two or three selectors are sent unchanged.
BulkSentIffSelectorAndURLParses ==
    BulkCall =>
        /\ Len(out.reqs) = 1 <=>
               /\ Selectors(Deref(out.args.request)) # {}
               /\ ~ParseURLFails(c.baseURL)
        /\ BulkCheckedAndSentUnchanged

BulkSentWithThreeSelectors ==
    /\ BulkCall
    /\ Selectors(Deref(out.args.request)) = {"uuids", "webhook_url", "statuses"}
    /\ Len(out.reqs) = 1
    /\ Deref(out.reqs[1].Body).webhook_url = ""

\* C18: whatever base URL was passed at construction, the base URL stored
\* in the client has no trailing slash, and every request URL is the stored
\* base URL followed by the operation path, which starts with one "/".
BaseURLHasNoTrailingSlash ==
    /\ ~HasSuffix(c.baseURL, "/")
    /\ Len(out.reqs) = 1 =>
           /\ HasPrefix(out.reqs[1].URL, c.baseURL \o "/chainhooks")
           /\ ~HasPrefix(out.reqs[1].URL, c.baseURL \o "//")

\* a client constructed with a base URL that ends in two slashes keeps one,
\* and its request URLs have two slashes before the path
RequestURLWithDoubleSlash ==
    /\ c.baseURL = "https://api.example.com/"
    /\ out.op = "GetStatus"
    /\ Len(out.reqs) = 1
    /\ out.reqs[1].URL = "https://api.example.com//chainhooks"

\* the operation table: method and path of each operation
TableMethod ==
    [RegisterChainhook |-> "POST", UpdateChainhook |-> "PATCH",
     GetChainhooks |-> "GET", GetChainhook |-> "GET",
     EnableChainhook |-> "PATCH", BulkEnableChainhooks |-> "PATCH",
     DeleteChainhook |-> "DELETE", GetConsumerSecret |-> "GET",
     RotateConsumerSecret |-> "POST", DeleteConsumerSecret |-> "DELETE",
     EvaluateChainhook |-> "POST", GetStatus |-> "GET"]

TablePath ==
    CASE out.op \in {"RegisterChainhook", "GetChainhooks"} -> "/chainhooks/me"
      [] out.op \in {"UpdateChainhook", "GetChainhook", "DeleteChainhook"} ->
             "/chainhooks/me/" \o out.args.uuid
      [] out.op = "EnableChainhook" -> "/chainhooks/me/" \o out.args.uuid \o "/enabled"
      [] out.op = "BulkEnableChainhooks" -> "/chainhooks/me/enabled"
      [] out.op = "EvaluateChainhook" -> "/chainhooks/me/" \o out.args.uuid \o "/evaluate"
      [] out.op \in {"GetConsumerSecret", "RotateConsumerSecret", "DeleteConsumerSecret"} ->
             "/chainhooks/me/secret"
      [] out.op = "GetStatus" -> "/chainhooks"

\* C19: the request an operation sends has the method and the path of the
\* operation table, the path taken relative to the client's base URL (for
\* GetChainhooks with pagination options it is followed by "?" and the query).
RequestFollowsOperationTable ==
    Len(out.reqs) = 1 =>
        /\ out.reqs[1].Method = TableMethod[out.op]
        /\ \/ out.reqs[1].URL = c.baseURL \o TablePath
           \/ /\ out.op = "GetChainhooks"
              /\ out.args.opts # NIL
              /\ HasPrefix(out.reqs[1].URL, c.baseURL \o TablePath \o "?")

EnableSentAsPatchOnEnabledPath ==
    /\ out.op = "EnableChainhook"
    /\ out.args.enabled = FALSE
    /\ Len(out.reqs) = 1
    /\ out.reqs[1].Method = "PATCH"
    /\ out.reqs[1].URL = "https://api.mainnet.hiro.so/chainhooks/me/u1/enabled"

---------------------------------------------------------------------------
(* Claims about the filters a builder accumulates *)

\* the discriminant tag of the event type of each AddX method
Tag ==
    [AddFTTransfer |-> "ft_transfer", AddFTMint |-> "ft_mint", AddFTBurn |-> "ft_burn",
     AddNFTTransfer |-> "nft_transfer", AddNFTMint |-> "nft_mint",
     AddNFTBurn |-> "nft_burn", AddSTXTransfer |-> "stx_transfer",
     AddSTXMint |-> "stx_mint", AddSTXBurn |-> "stx_burn",
     AddContractDeploy |-> "contract_deploy", AddContractCall |-> "contract_call",
     AddContractLog |-> "contract_log", AddBalanceChange |-> "balance_change",
     AddCoinbase |-> "coinbase", AddTenureChange |-> "tenure_change"]

\* the fields of the entry that hold the arguments that may be nil
Optional ==
    [AddFTTransfer |-> {"Sender", "Recipient", "Amount"},
     AddFTMint |-> {"Recipient", "Amount"}, AddFTBurn |-> {"Sender", "Amount"},
     AddNFTTransfer |-> {"Sender", "Recipient"}, AddNFTMint |-> {"Recipient"},
     AddNFTBurn |-> {"Sender"}, AddSTXTransfer |-> {"Sender", "Recipient", "Amount"},
     AddSTXMint |-> {"Recipient", "Amount"}, AddSTXBurn |-> {"Sender", "Amount"},
     AddContractDeploy |-> {"DeployerPrincipal"},
     AddContractCall |-> {"ContractIdentifier", "Method", "Sender"},
     AddContractLog |-> {"ContractIdentifier"}, AddBalanceChange |-> {"Principal"},
     AddCoinbase |-> {"Recipient"}, AddTenureChange |-> {}]

\* an add call on an error-free builder appends one entry and keeps the rest
AddAppendsTaggedEntry ==
    (ret'.op \in DOMAIN Tag \cup {"AddFilter"} /\ b.err = NIL) =>
        LET e == b'.filters[Len(b'.filters)]
        IN /\ b'.filters = Append(b.filters, e)
           /\ ret'.op = "AddFilter" => e = ret'.given
           /\ ret'.op \in DOMAIN Tag =>
                  /\ Deref(e).Type = Tag[ret'.op]
                  /\ \A f \in Optional[ret'.op] : (Deref(e)[f] = NIL) <=> ~ret'.given

\* a successful Build returns the accumulated entries as Filters.Events
BuildReturnsFiltersInOrder ==
    (ret'.op = "Build" /\ ret'.err = NIL) =>
        Deref(ret'.def).Filters.Events = b.filters

\* C20: on an error-free builder every AddX / AddFilter call appends exactly
\* one entry to the filters, after those of the earlier calls; the entry of
\* an AddX method carries the tag of that method's event type and has the
\* arguments passed as nil absent; a successful Build returns the entries,
\* in call order, as Filters.Events.
FiltersFollowAddCalls ==
    [][AddAppendsTaggedEntry /\ BuildReturnsFiltersInOrder]_vars

BuiltWithTwoFiltersInCallOrder ==
    /\ ret.op = "Build"
    /\ ret.err = NIL
    /\ Deref(ret.def).Filters.Events =
           <<Ptr([struct |-> "STXTransferFilter", Type |-> "stx_transfer",
                  Sender |-> NIL, Recipient |-> NIL, Amount |-> NIL]),
             Ptr([struct |-> "ContractCallFilter", Type |-> "contract_call",
                  ContractIdentifier |-> StringPtr("SP2.pool"),
                  Method |-> StringPtr("swap"), Sender |-> PrincipalStandard("SP1")])>>

---------------------------------------------------------------------------
(* Claims about what a round trip leaves behind *)

\* C22: whenever the transport returned a response (status >= 400, status
\* 204, any other status with or without a body to decode, body-read failure
\* or decode failure) the response body is closed exactly once before the
\* operation returns; where no response was obtained nothing is closed.
BodyClosedExactlyOnce ==
    out.op # "none" =>
        /\ out.resp # NIL => out.closes = 1
        /\ out.resp = NIL => out.closes = 0

BodyClosedAfterReadFailure ==
    /\ out.op = "GetStatus"
    /\ out.resp # NIL
    /\ Deref(out.resp).readErr
    /\ Deref(out.resp).StatusCode = 200
    /\ out.err = Ptr(Errorf("failed to read response body", LibraryError("unexpected EOF")))
    /\ out.closes = 1

---------------------------------------------------------------------------
(* Claims about the options of a ChainhookBuilder *)

\* C21: on a ChainhookBuilder the options are nil until the first option
\* setter is called; after any sequence of option setters the options are
\* present and hold exactly the fields whose setter was called, each with
\* the last value given, every other field being nil.
OptionsHoldWhatWasAsked ==
    /\ optionCalls = 0 => b.definition.Options = NIL
    /\ optionCalls > 0 =>
           /\ b.definition.Options # NIL
           /\ heap[Deref(b.definition.Options)] = ret.asked

OptionOverwrittenOthersNil ==
    /\ optionCalls = 3
    /\ ret.op = "WithEnableOnRegistration"
    /\ b.definition.Options = Ptr("own")
    /\ heap["own"] = [NewChainhookOptions EXCEPT !["EnableOnRegistration"] = BoolPtr(FALSE),
                                                 !["ExpireAfterEvaluations"] = Uint64Ptr(0)]

\* C30: WithOptions makes the builder's options the very object it is given
\* (nil makes them absent), whatever earlier option setters had set, and
\* leaves the caller's object as it is; an option setter called while the
\* options are the caller's object keeps that object and writes its field
\* into it.
WithOptionsReplacesByReference ==
    [][/\ ret'.op = "WithOptions" =>
            /\ b'.definition.Options = ret'.given
            /\ heap'["caller"] = heap["caller"]
       /\ (ret'.op # "WithOptions" /\ b.definition.Options = Ptr("caller")) =>
            /\ b'.definition.Options = Ptr("caller")
            /\ heap'["caller"] = [heap["caller"] EXCEPT ![ret'.field] = ret'.value]]_vars

SetterWroteIntoCallerObject ==
    /\ optionCalls = 3
    /\ ret.op = "WithIncludeContractABI"
    /\ b.definition.Options = Ptr("caller")
    /\ heap["caller"] = [CallerOptions EXCEPT !["IncludeContractABI"] = BoolPtr(TRUE)]
    /\ heap["own"] = NewChainhookOptions

---------------------------------------------------------------------------
(* Claims about what Build depends on and what it leaves behind *)

\* the error Build is expected to return for a name, an action URL and a
\* number of added filters
ExpectedBuildError(name, url, count) ==
    IF name = "" THEN Ptr(ValidationError("name", "name is required"))
    ELSE IF url = "" THEN Ptr(ValidationError("action.url", "webhook URL is required"))
    ELSE IF count = 0
    THEN Ptr(ValidationError("filters", "at least one filter is required"))
    ELSE NIL

\* C24: the builder's error slot is nil in every reachable state, and what
\* Build returns is determined by the current name, action URL and number
\* of added filters alone, an added nil filter counting as one.
BuilderNeverRecordsError ==
    /\ b.err = NIL
    /\ ret.op = "Build" =>
           /\ ret.err = ExpectedBuildError(b.definition.Name, b.definition.Action.URL,
                                           Len(b.filters))
           /\ ret.def = NIL <=> ret.err # NIL

BuildSucceededWithNilFilter ==
    /\ ret.op = "Build"
    /\ ret.err = NIL
    /\ ret.def # NIL
    /\ b.filters = <<NIL>>
    /\ b.err = NIL

\* the builder after the caller has supplied whatever Build can miss
Completed(bb) ==
    LET named == IF bb.definition.Name = "" THEN WithName(bb, "hook") ELSE bb
        posted == IF named.definition.Action.URL = ""
                  THEN WithWebhookURL(named, "https://example.com/webhook")
                  ELSE named
    IN IF Len(posted.filters) = 0 THEN AddTenureChange(posted) ELSE posted

\* C26: a Build that fails leaves the builder and its options as they
\* were, and once the caller has supplied what was missing the next Build
\* succeeds with the network, the options, and the name, action and filters
\* given before the failure.
FailedBuildIsNotSticky ==
    /\ [][(ret'.op = "Build" /\ ret'.err # NIL) => (b' = b /\ heap' = heap)]_vars
    /\ [](ret.op = "Build" /\ ret.err # NIL =>
             LET again == Build(Completed(b))
                 def == Deref(again.def)
             IN /\ again.err = NIL
                /\ again.def # NIL
                /\ def.Network = b.definition.Network
                /\ def.Options = b.definition.Options
                /\ b.definition.Name # "" => def.Name = b.definition.Name
                /\ b.definition.Action.URL # "" => def.Action = b.definition.Action
                /\ Len(b.filters) > 0 => def.Filters.Events = b.filters)

BuildFailedWithFilterAccumulated ==
    /\ ret.op = "Build"
    /\ IsValidationError(ret.err, "name")
    /\ b.err = NIL
    /\ b.definition.Action.URL = "https://example.com/webhook"
    /\ Len(b.filters) = 1
    /\ b.definition.Filters # [Events |-> b.filters]

\* C25: a successful Build returns the pointer to the builder's own
\* definition, the same at every successful Build, with the filters added so
\* far; while the caller keeps that pointer, WithName, WithNetwork and
\* WithWebhookURL write their value into the definition it points to, an
\* option setter writes into the options that definition points to, and an
\* AddX leaves that definition as it is and only lengthens the builder's
\* filter list, which the definition gets at the next successful Build.
BuildReturnsOwnDefinition ==
    [][/\ (ret'.op = "Build" /\ ret'.err = NIL) =>
            /\ ret'.ref = Ptr(OwnDefinition)
            /\ held # NIL => ret'.ref = held
            /\ b'.definition.Filters.Events = b.filters
       /\ held = Ptr(OwnDefinition) =>
            /\ ret'.op \in {w.method : w \in Withs(b)} =>
                   b'.definition[ret'.field] = ret'.value
            /\ ret'.op \in {s.method : s \in OptionSets(State)} =>
                   /\ b'.definition.Options # NIL
                   /\ heap'[Deref(b'.definition.Options)][ret'.field] = ret'.value
            /\ ret'.op \in {a.method : a \in Adds(b)} =>
                   /\ b'.definition = b.definition
                   /\ Len(b'.filters) = Len(b.filters) + 1]_vars

KeptDefinitionRenamedAfterAdd ==
    /\ held = Ptr(OwnDefinition)
    /\ ret.op = "WithName"
    /\ b.definition.Name = ""
    /\ Len(b.filters) = 2
    /\ Len(b.definition.Filters.Events) = 1
    /\ b.definition.Options # NIL

---------------------------------------------------------------------------
(* Claims about the client's configuration and the headers it sends *)

\* C23: a step that starts or ends an API operation leaves every field of
\* the client as it was, whatever the operation returned; a step that
\* changes the client changes the API key alone, the bearer token alone, or
\* one entry of the header map alone.
OnlySettersChangeClient ==
    [][/\ out' # out => c' = c
       /\ c' # c =>
            \/ c' = [c EXCEPT !.apiKey = c'.apiKey]
            \/ c' = [c EXCEPT !.jwt = c'.jwt]
            \/ \E k \in DOMAIN c'.headers :
                   c' = [c EXCEPT !.headers = (k :> c'.headers[k]) @@ c.headers]]_vars

FailedCallAfterSettersKeptClient ==
    /\ out.op = "RegisterChainhook"
    /\ IsHttpError(out.err)
    /\ c.baseURL = "https://api.example.com"
    /\ c.userAgent = "custom-agent/2"
    /\ c.timeout = 5
    /\ c.apiKey = Ptr("key-2")
    /\ c.jwt = Ptr("jwt-2")
    /\ c.headers = ("accept" :> "custom") @@ (HeaderAccept :> ContentTypeJSON)
                        @@ (HeaderContentType :> ContentTypeJSON)

\* C27: the request a call sends carries the Bearer value of a configured
\* token as Authorization, a configured API key as x-api-key and the
\* configured user agent as User-Agent, whatever SetHeader was given for
\* those names; for Accept and Content-Type it carries the value SetHeader
\* stored under that name, when no entry in another spelling competes.
CredentialsOutrankCustomHeaders ==
    Len(out.reqs) = 1 =>
        /\ c.jwt # NIL => Sends(HeaderAuthorization, "Bearer " \o Deref(c.jwt))
        /\ c.apiKey # NIL => Sends(HeaderAPIKey, Deref(c.apiKey))
        /\ Sends("User-Agent", c.userAgent)
        /\ \A name \in {HeaderAccept, HeaderContentType} :
               (\A k \in DOMAIN c.headers :
                    CanonicalHeaderKey(k) = CanonicalHeaderKey(name) => k = name)
               => Sends(name, c.headers[name])

CustomHeadersOutrankedAndAcceptOverridden ==
    /\ out.op = "GetStatus"
    /\ Len(out.reqs) = 1
    /\ {"Accept", "Authorization", "x-api-key", "User-Agent"} \subseteq DOMAIN c.headers
    /\ \A k \in {"Accept", "Authorization", "x-api-key", "User-Agent"} :
           c.headers[k] = "custom"
    /\ "accept" \notin DOMAIN c.headers
    /\ Sends(HeaderAuthorization, "Bearer jwt-2")
    /\ Sends(HeaderAPIKey, "key-1")
    /\ Sends("User-Agent", "custom-agent/2")
    /\ Sends(HeaderAccept, "custom")
    /\ Sends(HeaderContentType, ContentTypeJSON)

---------------------------------------------------------------------------
(* Claims about the values an operation returns *)

\* the operations that return a (result, error) pair, with the result type
ResultTypes ==
    [RegisterChainhook |-> "Chainhook",
     UpdateChainhook |-> "Chainhook",
     GetChainhooks |-> "PaginatedChainhookResponse",
     GetChainhook |-> "Chainhook",
     BulkEnableChainhooks |-> "BulkEnableChainhooksResponse",
     RotateConsumerSecret |-> "ConsumerSecretResponse",
     GetConsumerSecret |-> "ConsumerSecretResponse",
     GetStatus |-> "ApiStatusResponse"]

\* C28: an operation that returns a (result, error) pair returns a result
\* exactly when it returns no error; after a success status with status 204
\* or an empty body the result is the zero value of its type; with an error
\* the result is nil and the error is the ValidationError of the failed
\* pre-check, the wrapped transport error, or exactly the error the round
\* trip made of the response.
ResultIffNoError ==
    out.op \in DOMAIN ResultTypes =>
        LET zero == Ptr(ZeroResult(ResultTypes[out.op]))
        IN /\ out.result # NIL <=> out.err = NIL
           /\ (/\ out.err = NIL
               /\ \/ Deref(out.resp).StatusCode = StatusNoContent
                  \/ Len(Deref(out.resp).body.text) = 0)
              => out.result = zero
           /\ out.err # NIL =>
                 /\ out.result = NIL
                 /\ FailedPreChecks # {} => Deref(out.err).kind = "ValidationError"
                 /\ (Len(out.reqs) = 1 /\ out.resp = NIL) =>
                        /\ Deref(out.err).kind = "wrapError"
                        /\ Deref(out.err).msg = "failed to perform request"
                        /\ Deref(out.err).Err # NIL
                 /\ out.resp # NIL => out.err = respond(out.resp, out.reqs[1], zero).err

NoContentGaveZeroResult ==
    /\ out.op = "GetStatus"
    /\ out.resp # NIL
    /\ Deref(out.resp).StatusCode = StatusNoContent
    /\ Deref(out.resp).body = BodyResult
    /\ out.err = NIL
    /\ out.result = Ptr(ZeroResult("ApiStatusResponse"))

====
